---- MODULE Spec2Model ----
(***************************************************************************)
(* Model of src/utils/vector_store.py (class VectorStore): one engine       *)
(* instance with its in-memory map, the files of its storage directory and  *)
(* the Milvus server it talks to.  Every public method is one action; the   *)
(* methods themselves are operators from a world record to a world record   *)
(* and a returned value, written branch by branch after the source.         *)
(*                                                                          *)
(* Abstractions: an embedding of length dim is given by its first two       *)
(* coordinates (all others are 0); scores are exact rationals under a       *)
(* square root instead of floats; the uuid of an entry and the metadata of  *)
(* a collection, which no method reads, are left out.                       *)
(***************************************************************************)
EXTENDS Integers, Sequences, FiniteSets, Bags, TLC

VARIABLES
    milvus_available,  \* self.milvus_available
    collections,       \* self.collections
    files,             \* the collection files of self.storage_dir
    storage_dir,       \* whether the directory self.storage_dir exists
    server,            \* the collections of the Milvus server
    last,              \* the call made last and its outcome
    failover_batch,    \* history: the batch a failing-over add_documents stored
    added,             \* history: sizes of the batches added, by backend
    threads,           \* the threads that are inside a method of the engine
    chat               \* the engine of another service of the process

vars == <<milvus_available, collections, files, storage_dir, server, last,
          failover_batch, added, threads, chat>>

-----------------------------------------------------------------------------
(* Bounds of the model *)

\* longest session id of the name specification
MaxIdLen == 2
\* most calls one thread makes in the thread specification
MaxCalls == 2
\* most fragments one collection holds in the failover specification
MaxDocs == 2
\* most fragments the collection holds in the ranking specification
MaxRankDocs == 3
\* largest top_k asked for in the failover specification
MaxTopK == 2

\* dim of the embedding field in the Milvus schema
D == 768

-----------------------------------------------------------------------------
(* Session ids and collection names *)

\* representatives of [a-zA-Z0-9_]
SafeChars == {"a", "b", "Z", "_", "0"}

\* "a" and "a-" sanitize to the same collection name
SessionIds == {<<"a">>, <<"a", "-">>}

\* a substitution that puts an underscore where re.sub removes a character
RECURSIVE Sanitize_underscore(_)
Sanitize_underscore(s) ==
    IF s = <<>> THEN <<>>
    ELSE IF Head(s) \in SafeChars THEN <<Head(s)>> \o Sanitize_underscore(Tail(s))
    ELSE <<"_">> \o Sanitize_underscore(Tail(s))

\* re.sub(r'[^a-zA-Z0-9_]', '', session_id)
RECURSIVE Sanitize(_)
Sanitize(s) ==
    IF s = <<>> THEN <<>>
    ELSE IF Head(s) \in SafeChars THEN <<Head(s)>> \o Sanitize(Tail(s))
    ELSE Sanitize(Tail(s))

format_collection_name(session_id) == <<"sess_">> \o Sanitize(session_id)

Names == {format_collection_name(s) : s \in SessionIds}

-----------------------------------------------------------------------------
(* Fragments, embeddings, scores *)

Vec(d, x, y) == [dim |-> d, x |-> x, y |-> y]

\* what the embedding provider answers when it fails: `not query_embedding`
None == Vec(0, 0, 0)

AllKeys == {"text", "original_text", "embedding"}

Frag(t, e) == [keys |-> AllKeys, text |-> t, original_text |-> t, embedding |-> e]

\* doc[k] raises KeyError
Malformed(doc) == doc.keys # AllKeys

Entry(doc, filename) ==
    [text |-> doc.text, original_text |-> doc.original_text,
     filename |-> filename, embedding |-> doc.embedding]

Score0 == [num |-> 0, den2 |-> 1]

\* _cosine_similarity without the division by the norms
cosine_similarity_unnormalized(vec1, vec2) ==
    IF vec1.dim # vec2.dim THEN Score0
    ELSE [num |-> vec1.x * vec2.x + vec1.y * vec2.y, den2 |-> 1]

\* _cosine_similarity without the test of the norms: 0 / 0 for a zero vector
cosine_similarity_nan(vec1, vec2) ==
    IF vec1.dim # vec2.dim THEN Score0
    ELSE [num |-> vec1.x * vec2.x + vec1.y * vec2.y,
          den2 |-> (vec1.x * vec1.x + vec1.y * vec1.y) * (vec2.x * vec2.x + vec2.y * vec2.y)]

\* the score num / sqrt(den2)
cosine_similarity(vec1, vec2) ==
    IF vec1.dim # vec2.dim THEN Score0
    ELSE LET dot_product == vec1.x * vec2.x + vec1.y * vec2.y
             norm1sq == vec1.x * vec1.x + vec1.y * vec1.y
             norm2sq == vec2.x * vec2.x + vec2.y * vec2.y
         IN  IF norm1sq = 0 \/ norm2sq = 0 THEN Score0
             ELSE [num |-> dot_product, den2 |-> norm1sq * norm2sq]

SignedSquare(n) == IF n < 0 THEN 0 - n * n ELSE n * n

ScoreLess(a, b) == SignedSquare(a.num) * b.den2 < SignedSquare(b.num) * a.den2

ScoreEq(a, b) == SignedSquare(a.num) * b.den2 = SignedSquare(b.num) * a.den2

ScoreIsOne(a) == a.num > 0 /\ a.num * a.num = a.den2

Scored(doc, score) ==
    [text |-> doc.text, original_text |-> doc.original_text,
     filename |-> doc.filename, score |-> score]

RECURSIVE ScoreAll(_, _)
ScoreAll(query_embedding, documents) ==
    IF documents = <<>> THEN <<>>
    ELSE <<Scored(Head(documents),
                  cosine_similarity(query_embedding, Head(documents).embedding))>>
         \o ScoreAll(query_embedding, Tail(documents))

\* an insertion that is not stable: x goes in front of the elements of its
\* own score
RECURSIVE InsertDesc_unstable(_, _)
InsertDesc_unstable(sorted, x) ==
    IF sorted = <<>> THEN <<x>>
    ELSE IF ~ScoreLess(x.score, Head(sorted).score) THEN <<x>> \o sorted
    ELSE <<Head(sorted)>> \o InsertDesc_unstable(Tail(sorted), x)

\* list.sort(key=score, reverse=True) is stable: x goes behind every element
\* whose score is not less than its own
RECURSIVE InsertDesc(_, _)
InsertDesc(sorted, x) ==
    IF sorted = <<>> THEN <<x>>
    ELSE IF ScoreLess(Head(sorted).score, x.score) THEN <<x>> \o sorted
    ELSE <<Head(sorted)>> \o InsertDesc(Tail(sorted), x)

RECURSIVE SortDescFrom(_, _)
SortDescFrom(sorted, rest) ==
    IF rest = <<>> THEN sorted
    ELSE SortDescFrom(InsertDesc(sorted, Head(rest)), Tail(rest))

\* the sort left out
SortDesc_unsorted(scored_docs) == scored_docs

SortDesc(scored_docs) == SortDescFrom(<<>>, scored_docs)

\* scored_docs[:top_k] for top_k >= 0
Take(seq, k) == SubSeq(seq, 1, IF k < Len(seq) THEN k ELSE Len(seq))

-----------------------------------------------------------------------------
(* The world: the engine's fields, the storage directory, the Milvus server *)

Coll(docs) == [present |-> TRUE, documents |-> docs]

\* a key that is not in self.collections, a file or a server collection that
\* does not exist
NoColl == [present |-> FALSE, documents |-> <<>>]

\* how the file system answers during one call: "read_fail" makes open(.., 'r')
\* or json.load raise, "write_fail" makes open(.., 'w') and os.remove raise
IoModes == {"ok", "read_fail", "write_fail"}

RetBool(b) ==
    [kind |-> "bool", b |-> b, docs |-> <<>>, name |-> <<>>, num_entities |-> 0,
     storage_type |-> ""]

RetList(l) ==
    [kind |-> "list", b |-> FALSE, docs |-> l, name |-> <<>>, num_entities |-> 0,
     storage_type |-> ""]

\* the record get_collection_stats returns ('description' is a constant of
\* the branch)
RetStats(name, n, t) ==
    [kind |-> "stats", b |-> FALSE, docs |-> <<>>, name |-> name, num_entities |-> n,
     storage_type |-> t]

RetNone ==
    [kind |-> "none", b |-> FALSE, docs |-> <<>>, name |-> <<>>, num_entities |-> 0,
     storage_type |-> ""]

\* what a method hands back: the world after it, the value returned, and the
\* exception the primary branch ended with ("none", "backend" for an exception
\* of the Milvus connection, "schema" for a batch Milvus rejects, "caller"
\* for a KeyError of the batch)
Out(w, ret, raised) == [w |-> w, ret |-> ret, raised |-> raised]

SetFallback(w) == [w EXCEPT !.milvus_available = FALSE]

-----------------------------------------------------------------------------
(* The fallback store *)

save_collection_to_file(w, collection_name, io) ==
    IF w.storage_dir /\ io # "write_fail"
    THEN [w EXCEPT !.files[collection_name] = w.collections[collection_name]]
    ELSE w

\* [w, ok]: ok is the value returned
load_collection_from_file(w, collection_name, io) ==
    IF w.files[collection_name].present /\ io # "read_fail"
    THEN [w |-> [w EXCEPT !.collections[collection_name] = w.files[collection_name]],
          ok |-> TRUE]
    ELSE [w |-> w, ok |-> FALSE]

\* _create_fallback_collection without the test at line 104: the collection
\* is made anew each time
create_fallback_collection_anew(w, collection_name, io) ==
    save_collection_to_file(
        [w EXCEPT !.collections[collection_name] = Coll(<<>>)],
        collection_name, io)

create_fallback_collection(w, collection_name, io) ==
    IF ~w.collections[collection_name].present
    THEN save_collection_to_file(
             [w EXCEPT !.collections[collection_name] = Coll(<<>>)],
             collection_name, io)
    ELSE w

\* the entries appended before the loop meets a document it cannot read
RECURSIVE AppendedEntries(_, _)
AppendedEntries(documents, filename) ==
    IF documents = <<>> \/ Malformed(Head(documents)) THEN <<>>
    ELSE <<Entry(Head(documents), filename)>> \o AppendedEntries(Tail(documents), filename)

AnyMalformed(documents) == \E i \in 1..Len(documents) : Malformed(documents[i])

add_documents_fallback(w, collection_name, documents, filename, io) ==
    LET l  == load_collection_from_file(w, collection_name, io)
        w1 == IF w.collections[collection_name].present THEN w
              ELSE IF l.ok THEN l.w
              ELSE create_fallback_collection(w, collection_name, io)
        w2 == [w1 EXCEPT !.collections[collection_name].documents =
                             @ \o AppendedEntries(documents, filename)]
    IN  IF AnyMalformed(documents)
        THEN [w |-> w2, ret |-> RetBool(FALSE)]
        ELSE [w |-> save_collection_to_file(w2, collection_name, io), ret |-> RetBool(TRUE)]

\* search_documents_fallback that reads the file whenever there is one
search_documents_fallback_reload(w, collection_name, query_embedding, top_k, io) ==
    LET l  == load_collection_from_file(w, collection_name, io)
        w1 == IF l.ok THEN l.w ELSE w
    IN  IF ~w1.collections[collection_name].present
        THEN [w |-> w1, ret |-> RetList(<<>>)]
        ELSE IF query_embedding = None
        THEN [w |-> w1, ret |-> RetList(<<>>)]
        ELSE [w |-> w1,
              ret |-> RetList(Take(SortDesc(ScoreAll(query_embedding,
                                  w1.collections[collection_name].documents)), top_k))]

search_documents_fallback(w, collection_name, query_embedding, top_k, io) ==
    LET l  == load_collection_from_file(w, collection_name, io)
        w1 == IF w.collections[collection_name].present THEN w ELSE l.w
    IN  IF ~w1.collections[collection_name].present
        THEN [w |-> w1, ret |-> RetList(<<>>)]
        ELSE IF query_embedding = None
        THEN [w |-> w1, ret |-> RetList(<<>>)]
        ELSE [w |-> w1,
              ret |-> RetList(Take(SortDesc(ScoreAll(query_embedding,
                                  w1.collections[collection_name].documents)), top_k))]

\* get_collection_stats that reports the size of the file instead of the
\* collection in memory
get_collection_stats_fallback_file(w, collection_name, io) ==
    LET l  == load_collection_from_file(w, collection_name, io)
        w1 == IF w.collections[collection_name].present THEN w ELSE l.w
    IN  IF ~w1.collections[collection_name].present
        THEN [w |-> w1, ret |-> RetNone]
        ELSE [w |-> w1, ret |-> RetStats(collection_name, Len(w1.files[collection_name].documents),
                               "file")]

\* lines 374-388 of get_collection_stats
get_collection_stats_fallback(w, collection_name, io) ==
    LET l  == load_collection_from_file(w, collection_name, io)
        w1 == IF w.collections[collection_name].present THEN w ELSE l.w
    IN  IF ~w1.collections[collection_name].present
        THEN [w |-> w1, ret |-> RetNone]
        ELSE [w |-> w1,
              ret |-> RetStats(collection_name,
                               Len(w1.collections[collection_name].documents), "file")]

\* the fallback deletion reporting failure when there was nothing to delete
delete_collection_fallback_strict(w, collection_name, io) ==
    LET w1 == [w EXCEPT !.collections[collection_name] = NoColl]
    IN  IF ~w.files[collection_name].present
        THEN [w |-> w1, ret |-> RetBool(w.collections[collection_name].present)]
        ELSE IF io = "write_fail"
        THEN [w |-> w1, ret |-> RetBool(FALSE)]
        ELSE [w |-> [w1 EXCEPT !.files[collection_name] = NoColl], ret |-> RetBool(TRUE)]

\* the fallback deletion without lines 339-340: the collection stays in memory
delete_collection_fallback_file_only(w, collection_name, io) ==
    IF ~w.files[collection_name].present
    THEN [w |-> w, ret |-> RetBool(TRUE)]
    ELSE IF io = "write_fail"
    THEN [w |-> w, ret |-> RetBool(FALSE)]
    ELSE [w |-> [w EXCEPT !.files[collection_name] = NoColl], ret |-> RetBool(TRUE)]

\* lines 337-350 of delete_collection
delete_collection_fallback(w, collection_name, io) ==
    LET w1 == [w EXCEPT !.collections[collection_name] = NoColl]
    IN  IF ~w1.files[collection_name].present
        THEN [w |-> w1, ret |-> RetBool(TRUE)]
        ELSE IF io = "write_fail"
        THEN [w |-> w1, ret |-> RetBool(FALSE)]
        ELSE [w |-> [w1 EXCEPT !.files[collection_name] = NoColl], ret |-> RetBool(TRUE)]

\* lines 149-151 of collection_exists
collection_exists_fallback(w, collection_name) ==
    w.collections[collection_name].present \/ w.files[collection_name].present

-----------------------------------------------------------------------------
(* The public methods.  pf names the call to Milvus that raises in this       *)
(* invocation, if it is reached ("none": no call raises).                     *)

has_collection(w, collection_name) == w.server[collection_name].present

\* [w, handle, raised]: handle tells whether a Milvus Collection or the name
\* of a fallback collection is returned
create_collection(w, session_id, pf, io) ==
    LET collection_name == format_collection_name(session_id)
        failed == create_fallback_collection(SetFallback(w), collection_name, io)
        created == [w EXCEPT !.server[collection_name] = Coll(<<>>)]
    IN  IF ~w.milvus_available
        THEN [w |-> create_fallback_collection(w, collection_name, io),
              handle |-> "fallback", raised |-> "none"]
        ELSE IF pf = "has"
        THEN [w |-> failed, handle |-> "fallback", raised |-> "backend"]
        ELSE IF has_collection(w, collection_name)
        THEN [w |-> w, handle |-> "milvus", raised |-> "none"]
        ELSE IF pf = "index"
        THEN [w |-> create_fallback_collection(SetFallback(created), collection_name, io),
              handle |-> "fallback", raised |-> "backend"]
        ELSE [w |-> created, handle |-> "milvus", raised |-> "none"]

\* collection_exists answering False whenever Milvus raises
collection_exists_degrades(w, session_id, pf) ==
    LET collection_name == format_collection_name(session_id)
    IN  IF w.milvus_available /\ pf # "has"
        THEN Out(w, RetBool(has_collection(w, collection_name)), "none")
        ELSE IF w.milvus_available
        THEN Out(SetFallback(w), RetBool(FALSE), "backend")
        ELSE Out(w, RetBool(collection_exists_fallback(w, collection_name)), "none")

\* collection_exists that tries Milvus again after a failover
collection_exists_reconnect(w, session_id, pf) ==
    LET collection_name == format_collection_name(session_id)
        w1 == [w EXCEPT !.milvus_available = TRUE]
    IN  IF pf # "has"
        THEN Out(w1, RetBool(has_collection(w1, collection_name)), "none")
        ELSE Out(SetFallback(w), RetBool(collection_exists_fallback(w, collection_name)),
                 IF w.milvus_available THEN "backend" ELSE "none")

collection_exists(w, session_id, pf) ==
    LET collection_name == format_collection_name(session_id)
    IN  IF w.milvus_available /\ pf # "has"
        THEN Out(w, RetBool(has_collection(w, collection_name)), "none")
        ELSE LET w1 == SetFallback(w)
             IN  Out(w1, RetBool(collection_exists_fallback(w1, collection_name)),
                     IF w.milvus_available THEN "backend" ELSE "none")

\* the batch fits the schema of create_collection_schema
FitsSchema(documents) == \A i \in 1..Len(documents) : documents[i].embedding.dim = D

RECURSIVE Entries(_, _)
Entries(documents, filename) ==
    IF documents = <<>> THEN <<>>
    ELSE <<Entry(Head(documents), filename)>> \o Entries(Tail(documents), filename)

\* add_documents carrying the fragments Milvus holds over to the fallback
\* collection when the call fails over
add_documents_migrates(w, session_id, documents, filename, pf, io) ==
    LET collection_name == format_collection_name(session_id)
        c == create_collection(w, session_id, pf, io)
        inserted == [c.w EXCEPT !.server[collection_name].documents =
                                    @ \o Entries(documents, filename)]
        retry(w1, raised) ==
            LET f == add_documents_fallback(SetFallback(w1), collection_name,
                                            documents, filename, io)
                moved == [f.w EXCEPT !.collections[collection_name].documents =
                                         w.server[collection_name].documents \o @]
            IN  Out(IF w.milvus_available /\ f.w.collections[collection_name].present
                    THEN save_collection_to_file(moved, collection_name, io)
                    ELSE f.w,
                    f.ret, raised)
    IN  IF ~w.milvus_available THEN retry(w, "none")
        ELSE IF c.handle = "fallback" THEN retry(c.w, c.raised)
        ELSE IF AnyMalformed(documents) THEN retry(c.w, "caller")
        ELSE IF ~FitsSchema(documents) THEN retry(c.w, "schema")
        ELSE IF pf = "insert" THEN retry(c.w, "backend")
        ELSE IF pf = "load" THEN retry(inserted, "backend")
        ELSE Out(inserted, RetBool(TRUE), "none")

add_documents(w, session_id, documents, filename, pf, io) ==
    LET collection_name == format_collection_name(session_id)
        c == create_collection(w, session_id, pf, io)
        inserted == [c.w EXCEPT !.server[collection_name].documents =
                                    @ \o Entries(documents, filename)]
        retry(w1, raised) ==
            LET f == add_documents_fallback(SetFallback(w1), collection_name,
                                            documents, filename, io)
            IN  Out(f.w, f.ret, raised)
    IN  IF ~w.milvus_available THEN retry(w, "none")
        ELSE IF c.handle = "fallback" THEN retry(c.w, c.raised)
        ELSE IF AnyMalformed(documents) THEN retry(c.w, "caller")
        ELSE IF ~FitsSchema(documents) THEN retry(c.w, "schema")
        ELSE IF pf = "insert" THEN retry(c.w, "backend")
        ELSE IF pf = "load" THEN retry(inserted, "backend")
        ELSE Out(inserted, RetBool(TRUE), "none")

\* search_documents treating a missing query embedding as a failure of Milvus
search_documents_none_raises(w, session_id, emb, emb2, top_k, pf, io) ==
    LET collection_name == format_collection_name(session_id)
        retry(query_embedding, raised) ==
            LET f == search_documents_fallback(SetFallback(w), collection_name,
                                               query_embedding, top_k, io)
            IN  Out(f.w, f.ret, raised)
    IN  IF ~w.milvus_available THEN retry(emb, "none")
        ELSE IF pf = "has" THEN retry(emb, "backend")
        ELSE IF ~has_collection(w, collection_name) THEN Out(w, RetList(<<>>), "none")
        ELSE IF emb = None THEN retry(emb, "caller")
        ELSE IF pf = "search" THEN retry(emb2, "backend")
        ELSE Out(w, RetList(Take(SortDesc(ScoreAll(emb,
                        w.server[collection_name].documents)), top_k)), "none")

\* search_documents without the retry: a failure of Milvus ends the call with
\* the empty list
search_documents_noretry(w, session_id, emb, emb2, top_k, pf, io) ==
    LET collection_name == format_collection_name(session_id)
        f == search_documents_fallback(w, collection_name, emb, top_k, io)
    IN  IF ~w.milvus_available THEN Out(f.w, f.ret, "none")
        ELSE IF pf = "has" THEN Out(SetFallback(w), RetList(<<>>), "backend")
        ELSE IF ~has_collection(w, collection_name) THEN Out(w, RetList(<<>>), "none")
        ELSE IF emb = None THEN Out(w, RetList(<<>>), "none")
        ELSE IF pf = "search" THEN Out(SetFallback(w), RetList(<<>>), "backend")
        ELSE Out(w, RetList(Take(SortDesc(ScoreAll(emb,
                        w.server[collection_name].documents)), top_k)), "none")

\* emb is what the embedding provider answers the first time it is asked in
\* this invocation, emb2 what it answers the second time
search_documents(w, session_id, emb, emb2, top_k, pf, io) ==
    LET collection_name == format_collection_name(session_id)
        retry(query_embedding, raised) ==
            LET f == search_documents_fallback(SetFallback(w), collection_name,
                                               query_embedding, top_k, io)
            IN  Out(f.w, f.ret, raised)
    IN  IF ~w.milvus_available THEN retry(emb, "none")
        ELSE IF pf = "has" THEN retry(emb, "backend")
        ELSE IF ~has_collection(w, collection_name) THEN Out(w, RetList(<<>>), "none")
        ELSE IF emb = None THEN Out(w, RetList(<<>>), "none")
        ELSE IF pf = "search" THEN retry(emb2, "backend")
        ELSE Out(w, RetList(Take(SortDesc(ScoreAll(emb,
                        w.server[collection_name].documents)), top_k)), "none")

delete_collection(w, session_id, pf, io) ==
    LET collection_name == format_collection_name(session_id)
        dropped == [w EXCEPT !.server[collection_name] = NoColl]
        local(w1, raised) ==
            LET f == delete_collection_fallback(w1, collection_name, io)
            IN  Out(f.w, f.ret, raised)
    IN  IF ~w.milvus_available THEN local(w, "none")
        ELSE IF pf = "has" THEN local(SetFallback(w), "backend")
        ELSE IF ~has_collection(w, collection_name) THEN local(w, "none")
        ELSE IF pf = "drop" THEN local(SetFallback(w), "backend")
        ELSE IF pf = "drop_done" THEN local(SetFallback(dropped), "backend")
        ELSE local(dropped, "none")

\* get_collection_stats answering with a record for a collection that Milvus
\* does not have
get_collection_stats_always_record(w, session_id, pf, io) ==
    LET collection_name == format_collection_name(session_id)
        retry(raised) ==
            LET f == get_collection_stats_fallback(SetFallback(w), collection_name, io)
            IN  Out(f.w, f.ret, raised)
    IN  IF ~w.milvus_available THEN retry("none")
        ELSE IF pf = "has" THEN retry("backend")
        ELSE IF pf = "load" /\ has_collection(w, collection_name) THEN retry("backend")
        ELSE Out(w, RetStats(collection_name, Len(w.server[collection_name].documents),
                             "milvus"), "none")

get_collection_stats(w, session_id, pf, io) ==
    LET collection_name == format_collection_name(session_id)
        retry(raised) ==
            LET f == get_collection_stats_fallback(SetFallback(w), collection_name, io)
            IN  Out(f.w, f.ret, raised)
    IN  IF ~w.milvus_available THEN retry("none")
        ELSE IF pf = "has" THEN retry("backend")
        ELSE IF ~has_collection(w, collection_name) THEN Out(w, RetNone, "none")
        ELSE IF pf = "load" THEN retry("backend")
        ELSE Out(w, RetStats(collection_name, Len(w.server[collection_name].documents),
                             "milvus"), "none")

-----------------------------------------------------------------------------
(* Inputs *)

Filename == "notes.docx"

E1 == Vec(D, 1, 0)

E2 == Vec(D, 0, 1)

\* an embedding of the wrong dimension
EW == Vec(D - 1, 1, 0)

FA == Frag("cats are mammals", E1)

FB == Frag("dogs bark", E2)

FW == Frag("short vector", EW)

\* a fragment without the 'text' field
FM == [keys |-> {"original_text", "embedding"}, text |-> "", original_text |-> "no text",
       embedding |-> E1]

Batches == {<<FA>>, <<FB>>, <<FW>>, <<FA, FB>>, <<FA, FM>>}

QueryEmbeddings == {None, E1}

NoBatch == <<>>

\* the calls to Milvus that may raise, by method
CreateFaults == {"none", "has", "index"}

ExistsFaults == {"none", "has"}

AddFaults == {"none", "has", "index", "insert", "load"}

SearchFaults == {"none", "has", "search"}

DeleteFaults == {"none", "has", "drop", "drop_done"}

StatsFaults == {"none", "has", "load"}

ReadModes == {"ok", "read_fail"}

WriteModes == {"ok", "write_fail"}

-----------------------------------------------------------------------------
(* State, initial states, actions *)

World ==
    [milvus_available |-> milvus_available, collections |-> collections,
     files |-> files, storage_dir |-> storage_dir, server |-> server]

\* the call that was made last: the method, the collection it named, the batch
\* it was given, the last answer of the embedding provider, the value it
\* returned, the exception its primary branch ended with, and whether the
\* call before it was of the same method for the same collection
Call(op, session_id, documents, emb, o) ==
    [op |-> op, collection_name |-> format_collection_name(session_id),
     documents |-> documents, emb |-> emb, ret |-> o.ret, raised |-> o.raised,
     repeat |-> (last.op = op /\ last.collection_name = format_collection_name(session_id))]

PrimaryRaised(raised) == raised \in {"backend", "schema"}

\* history: the entries of the batch that an add_documents call stored on the
\* fallback after Milvus raised, until a delete_collection of that collection
FailoverBatchNext(call) ==
    LET n == call.collection_name
    IN  IF call.op = "delete_collection"
        THEN [failover_batch EXCEPT ![n] = <<>>]
        ELSE IF call.op = "add_documents" /\ PrimaryRaised(call.raised) /\ call.ret.b
        THEN [failover_batch EXCEPT ![n] = Entries(call.documents, Filename)]
        ELSE failover_batch

\* history: since the collection was last absent everywhere (fresh), the
\* fragments of the batches whose add_documents returned true, counted by the
\* backend that completed the call, and the fragments that calls returning
\* false left behind on the fallback (partial)
AddedNext(call) ==
    LET n == call.collection_name
        k == Len(call.documents)
    IN  IF call.op = "delete_collection"
        THEN [added EXCEPT ![n] = [fresh |-> call.ret.b, primary |-> 0, fallback |-> 0,
                                   partial |-> 0]]
        ELSE IF call.op = "add_documents" /\ ~call.ret.b
        THEN [added EXCEPT ![n].partial = @ + Len(AppendedEntries(call.documents, Filename))]
        ELSE IF call.op = "add_documents" /\ milvus_available /\ call.raised = "none"
        THEN [added EXCEPT ![n].primary = @ + k]
        ELSE IF call.op = "add_documents"
        THEN [added EXCEPT ![n].fallback = @ + k]
        ELSE added

Commit(o, call) ==
    /\ milvus_available' = o.w.milvus_available
    /\ collections' = o.w.collections
    /\ files' = o.w.files
    /\ storage_dir' = o.w.storage_dir
    /\ server' = o.w.server
    /\ last' = call
    /\ failover_batch' = FailoverBatchNext(call)
    /\ added' = AddedNext(call)
    /\ UNCHANGED <<threads, chat>>

\* files a previous process left in the storage directory
PersistedFiles == {NoColl, Coll(<<Entry(FA, Filename)>>)}

NoCall ==
    [op |-> "init", collection_name |-> <<>>, documents |-> NoBatch, emb |-> None,
     ret |-> RetNone, raised |-> "none", repeat |-> FALSE]

\* the methods are called one at a time
NoThreads == <<>>

\* the process has one engine
NoEngine == <<>>

InitHistory ==
    /\ last = NoCall
    /\ threads = NoThreads
    /\ chat = NoEngine
    /\ failover_batch = [n \in Names |-> <<>>]
    /\ added = [n \in Names |->
                   [fresh |-> ~files[n].present, primary |-> 0, fallback |-> 0,
                    partial |-> 0]]

\* __init__: the connection to Milvus succeeds, or it fails and
\* _init_fallback_storage makes the storage directory
Init ==
    /\ milvus_available \in BOOLEAN
    /\ storage_dir \in (IF milvus_available THEN BOOLEAN ELSE {TRUE})
    /\ collections = [n \in Names |-> NoColl]
    /\ server = [n \in Names |-> NoColl]
    /\ files \in (IF storage_dir THEN [Names -> PersistedFiles]
                  ELSE {[n \in Names |-> NoColl]})
    /\ InitHistory

\* with Milvus not in use no call to it is made
Faults(w, points) == IF w.milvus_available THEN points ELSE {"none"}

\* the bound of the model on the size of a collection
Room(session_id, documents, max) ==
    LET n == format_collection_name(session_id)
    IN  /\ Len(collections[n].documents) + Len(documents) <= max
        /\ Len(files[n].documents) + Len(documents) <= max
        /\ Len(server[n].documents) + Len(documents) <= max

CreateCollection(session_id, pf, io) ==
    \E c \in {create_collection(World, session_id, pf, io)} :
        Commit(c, Call("create_collection", session_id, NoBatch, None,
                       Out(c.w, RetNone, c.raised)))

CollectionExists(session_id, pf) ==
    \E o \in {collection_exists(World, session_id, pf)} :
        Commit(o, Call("collection_exists", session_id, NoBatch, None, o))

AddDocuments(session_id, documents, pf, io) ==
    \E o \in {add_documents(World, session_id, documents, Filename, pf, io)} :
        Commit(o, Call("add_documents", session_id, documents, None, o))

\* the provider is asked a second time only when Milvus raises after the
\* first answer
AsksTwice(w, session_id, emb, pf) ==
    /\ w.milvus_available
    /\ pf = "search"
    /\ has_collection(w, format_collection_name(session_id))
    /\ emb # None

LastAnswer(w, session_id, emb, emb2, pf) ==
    IF AsksTwice(w, session_id, emb, pf) THEN emb2 ELSE emb

SearchDocuments(session_id, emb, emb2, top_k, pf, io) ==
    /\ AsksTwice(World, session_id, emb, pf) \/ emb2 = emb
    /\ \E o \in {search_documents(World, session_id, emb, emb2, top_k, pf, io)} :
           Commit(o, Call("search_documents", session_id, NoBatch,
                          LastAnswer(World, session_id, emb, emb2, pf), o))

DeleteCollection(session_id, pf, io) ==
    \E o \in {delete_collection(World, session_id, pf, io)} :
        Commit(o, Call("delete_collection", session_id, NoBatch, None, o))

GetCollectionStats(session_id, pf, io) ==
    \E o \in {get_collection_stats(World, session_id, pf, io)} :
        Commit(o, Call("get_collection_stats", session_id, NoBatch, None, o))

Next ==
    \/ \E s \in SessionIds, pf \in Faults(World, CreateFaults), io \in WriteModes :
           CreateCollection(s, pf, io)
    \/ \E s \in SessionIds, pf \in Faults(World, ExistsFaults) :
           CollectionExists(s, pf)
    \/ \E s \in SessionIds, b \in Batches, pf \in Faults(World, AddFaults), io \in IoModes :
           Room(s, b, MaxDocs) /\ AddDocuments(s, b, pf, io)
    \/ \E s \in SessionIds, emb \in QueryEmbeddings, emb2 \in QueryEmbeddings,
          top_k \in 1..MaxTopK, pf \in Faults(World, SearchFaults), io \in ReadModes :
           SearchDocuments(s, emb, emb2, top_k, pf, io)
    \/ \E s \in SessionIds, pf \in Faults(World, DeleteFaults), io \in WriteModes :
           DeleteCollection(s, pf, io)
    \/ \E s \in SessionIds, pf \in Faults(World, StatsFaults), io \in ReadModes :
           GetCollectionStats(s, pf, io)

Spec == Init /\ [][Next]_vars

-----------------------------------------------------------------------------
(* The ranking specification: an engine built with Milvus unreachable, one  *)
(* session, embeddings at known angles                                       *)

RankSession == <<"a">>

R1 == Frag("east", Vec(D, 1, 0))

\* the same embedding as R1
R1b == Frag("east again", Vec(D, 1, 0))

\* collinear with R1
R2 == Frag("far east", Vec(D, 2, 0))

R3 == Frag("north", Vec(D, 0, 1))

R4 == Frag("north-east", Vec(D, 1, 1))

RZ == Frag("nowhere", Vec(D, 0, 0))

RN == Frag("west", Vec(D, -1, 0))

RankFragments == {R1, R1b, R2, R3, R4, RZ, RN}

RankBatches == {<<f>> : f \in RankFragments} \cup {<<R3, R1>>}

RankQueries == {f.embedding : f \in RankFragments} \cup {Vec(D, 2, 1)}

RankInit ==
    /\ milvus_available = FALSE
    /\ storage_dir = TRUE
    /\ collections = [n \in Names |-> NoColl]
    /\ server = [n \in Names |-> NoColl]
    /\ files = [n \in Names |-> NoColl]
    /\ InitHistory

RankAdd(documents) ==
    /\ Room(RankSession, documents, MaxRankDocs)
    /\ AddDocuments(RankSession, documents, "none", "ok")

RankSearch(emb, top_k) == SearchDocuments(RankSession, emb, emb, top_k, "none", "ok")

RankNext ==
    \/ \E b \in RankBatches : RankAdd(b)
    \/ \E emb \in RankQueries, top_k \in 1..MaxRankDocs : RankSearch(emb, top_k)

SpecRank == RankInit /\ [][RankNext]_vars

-----------------------------------------------------------------------------
(* The thread specification: two threads call the methods of one engine.     *)
(* A step of a thread is one access to self.collections, one operation on a  *)
(* collection file, or the calls one method makes to Milvus (the server      *)
(* orders them).  Milvus and the file system do not raise here, the          *)
(* embedding provider always answers; the engine leaves Milvus only through  *)
(* the except clause of add_documents, on a batch it cannot read.            *)

ThreadIds == {1, 2}

ThreadSessions == {<<"a">>, <<"b">>}

ThreadNames == {format_collection_name(s) : s \in ThreadSessions}

\* the batch of two fragments that thread t adds
ThreadBatch(t) ==
    IF t = 1 THEN <<Frag("p1", E1), Frag("p2", E2)>> ELSE <<Frag("q1", E1), Frag("q2", E2)>>

ThreadBatches(t) == {ThreadBatch(t), <<FM>>}

ThreadQuery == E1

ThreadTopK == 4 * MaxCalls

Methods == {"add_documents", "search_documents", "delete_collection", "get_collection_stats"}

\* what the method called would return, and leave behind, on an engine that
\* only this thread uses
Alone(w, op, session_id, documents) ==
    IF op = "add_documents" THEN add_documents(w, session_id, documents, Filename, "none", "ok")
    ELSE IF op = "search_documents"
    THEN search_documents(w, session_id, ThreadQuery, ThreadQuery, ThreadTopK, "none", "ok")
    ELSE IF op = "delete_collection" THEN delete_collection(w, session_id, "none", "ok")
    ELSE get_collection_stats(w, session_id, "none", "ok")

\* a thread: its session, where it stands in the method it called (pc, the
\* index i of the loop over the batch, after: where _create_fallback_collection
\* returns to), the value the call returned, the number of calls it made, and
\* as history the engine it would have had to itself (shadow), the value the
\* call would return there (exp), and whether a read of the collection
\* happened while the other thread was adding a batch to it (during)
Thread(session_id, w) ==
    [session_id |-> session_id, pc |-> "idle", op |-> "none", documents |-> NoBatch,
     i |-> 0, after |-> "none", ret |-> RetNone, calls |-> 0,
     shadow |-> w, exp |-> RetNone, during |-> FALSE]

ThreadInit ==
    /\ milvus_available \in BOOLEAN
    /\ storage_dir = TRUE
    /\ collections = [n \in ThreadNames |-> NoColl]
    /\ server = [n \in ThreadNames |-> NoColl]
    /\ files = [n \in ThreadNames |-> NoColl]
    /\ last = NoCall
    /\ failover_batch = [n \in ThreadNames |-> <<>>]
    /\ added = [n \in ThreadNames |-> [fresh |-> TRUE, primary |-> 0, fallback |-> 0,
                                       partial |-> 0]]
    /\ chat = NoEngine
    /\ \E s2 \in ThreadSessions :
           threads = [t \in ThreadIds |-> Thread(IF t = 1 THEN <<"a">> ELSE s2, World)]

NameOf(t) == format_collection_name(threads[t].session_id)

Other(t) == CHOOSE u \in ThreadIds : u # t

\* the other thread is between the first append and the save of a batch for
\* the same collection
AddingTo(u, n) ==
    /\ NameOf(u) = n
    /\ threads[u].op = "add_documents"
    /\ threads[u].pc \in {"append", "save"}
    /\ threads[u].i > 1

Step(t, fields) == threads' = [threads EXCEPT ![t] = fields @@ threads[t]]

Return(t, ret) == Step(t, [pc |-> "idle", ret |-> ret])

ThreadFrame == UNCHANGED <<storage_dir, last, failover_batch, added, chat>>

\* the call and `if self.milvus_available:` at the head of the method
Begin(t, op, documents) ==
    /\ threads[t].pc = "idle"
    /\ threads[t].calls < MaxCalls
    /\ \E o \in {Alone(threads[t].shadow, op, threads[t].session_id, documents)} :
           Step(t, [pc |-> IF milvus_available THEN "primary"
                           ELSE IF op = "delete_collection" THEN "del_check"
                           ELSE "check",
                    op |-> op, documents |-> documents, i |-> 1, after |-> "none",
                    calls |-> threads[t].calls + 1, shadow |-> o.w, exp |-> o.ret,
                    during |-> FALSE])
    /\ UNCHANGED <<milvus_available, collections, files, server>>
    /\ ThreadFrame

\* the try block of the method: lines 157-180, 216-251, 328-335, 356-369
Primary(t) ==
    LET n == NameOf(t)
        T == threads[t]
        created == IF server[n].present THEN server ELSE [server EXCEPT ![n] = Coll(<<>>)]
        here == UNCHANGED <<milvus_available, collections, files, server>>
    IN  /\ T.pc = "primary"
        /\ ThreadFrame
        /\ IF T.op = "add_documents"
           THEN IF ~milvus_available
                THEN /\ Step(t, [pc |-> "create_check", after |-> "check"])
                     /\ here
                ELSE IF AnyMalformed(T.documents)
                THEN /\ Step(t, [pc |-> "check"])
                     /\ milvus_available' = FALSE
                     /\ server' = created
                     /\ UNCHANGED <<collections, files>>
                ELSE /\ Return(t, RetBool(TRUE))
                     /\ server' = [created EXCEPT ![n].documents =
                                                      @ \o Entries(T.documents, Filename)]
                     /\ UNCHANGED <<milvus_available, collections, files>>
           ELSE IF T.op = "search_documents"
           THEN /\ Return(t, RetList(Take(SortDesc(ScoreAll(ThreadQuery,
                                              server[n].documents)), ThreadTopK)))
                /\ here
           ELSE IF T.op = "get_collection_stats"
           THEN /\ Return(t, IF server[n].present
                             THEN RetStats(n, Len(server[n].documents), "milvus")
                             ELSE RetNone)
                /\ here
           ELSE /\ Step(t, [pc |-> "del_check"])
                /\ server' = [server EXCEPT ![n] = NoColl]
                /\ UNCHANGED <<milvus_available, collections, files>>

\* `if collection_name not in self.collections:` at lines 191, 262 and 376
Check(t) ==
    /\ threads[t].pc = "check"
    /\ Step(t, [pc |-> IF ~collections[NameOf(t)].present THEN "load"
                       ELSE IF threads[t].op = "add_documents" THEN "append"
                       ELSE "read"])
    /\ UNCHANGED <<milvus_available, collections, files, server>>
    /\ ThreadFrame

\* _load_collection_from_file and the branch on its result
Load(t) ==
    LET n == NameOf(t)
        T == threads[t]
    IN  /\ T.pc = "load"
        /\ ThreadFrame
        /\ UNCHANGED <<milvus_available, files, server>>
        /\ IF files[n].present
           THEN /\ collections' = [collections EXCEPT ![n] = files[n]]
                /\ Step(t, [pc |-> IF T.op = "add_documents" THEN "append" ELSE "read"])
           ELSE /\ UNCHANGED collections
                /\ IF T.op = "add_documents"
                   THEN Step(t, [pc |-> "create_check", after |-> "append"])
                   ELSE Return(t, IF T.op = "search_documents" THEN RetList(<<>>)
                                  ELSE RetNone)

\* `if collection_name not in self.collections:` at line 104
CreateCheck(t) ==
    /\ threads[t].pc = "create_check"
    /\ Step(t, [pc |-> IF collections[NameOf(t)].present THEN threads[t].after
                       ELSE "create_set"])
    /\ UNCHANGED <<milvus_available, collections, files, server>>
    /\ ThreadFrame

\* the assignment at lines 105-111
CreateSet(t) ==
    /\ threads[t].pc = "create_set"
    /\ collections' = [collections EXCEPT ![NameOf(t)] = Coll(<<>>)]
    /\ Step(t, [pc |-> "create_save"])
    /\ UNCHANGED <<milvus_available, files, server>>
    /\ ThreadFrame

\* _save_collection_to_file: a KeyError of self.collections[collection_name]
\* is caught inside it
SaveFile(n) ==
    IF collections[n].present THEN files' = [files EXCEPT ![n] = collections[n]]
    ELSE UNCHANGED files

\* line 112, and the return into add_documents
CreateSave(t) ==
    /\ threads[t].pc = "create_save"
    /\ SaveFile(NameOf(t))
    /\ Step(t, [pc |-> threads[t].after])
    /\ UNCHANGED <<milvus_available, collections, server>>
    /\ ThreadFrame

\* one round of the loop at lines 195-203
AppendEntry(t) ==
    LET n == NameOf(t)
        T == threads[t]
    IN  /\ T.pc = "append"
        /\ ThreadFrame
        /\ UNCHANGED <<milvus_available, files, server>>
        /\ IF Malformed(T.documents[T.i]) \/ ~collections[n].present
           THEN /\ Return(t, RetBool(FALSE))
                /\ UNCHANGED collections
           ELSE /\ collections' = [collections EXCEPT ![n].documents =
                                       Append(@, Entry(T.documents[T.i], Filename))]
                /\ Step(t, [pc |-> IF T.i = Len(T.documents) THEN "save" ELSE "append",
                            i |-> T.i + 1])

\* lines 205-207
Save(t) ==
    /\ threads[t].pc = "save"
    /\ SaveFile(NameOf(t))
    /\ Return(t, RetBool(TRUE))
    /\ UNCHANGED <<milvus_available, collections, server>>
    /\ ThreadFrame

\* the read of self.collections[collection_name]['documents'] at lines 271
\* and 382; a KeyError is caught by the method
Read(t) ==
    LET n == NameOf(t)
        T == threads[t]
        docs == collections[n].documents
    IN  /\ T.pc = "read"
        /\ Step(t, [pc |-> "idle",
                    during |-> AddingTo(Other(t), n),
                    ret |-> IF T.op = "search_documents"
                            THEN RetList(Take(SortDesc(ScoreAll(ThreadQuery, docs)),
                                              ThreadTopK))
                            ELSE IF collections[n].present
                            THEN RetStats(n, Len(docs), "file")
                            ELSE RetNone])
        /\ UNCHANGED <<milvus_available, collections, files, server>>
        /\ ThreadFrame

\* `if collection_name in self.collections:` at line 339
DelCheck(t) ==
    /\ threads[t].pc = "del_check"
    /\ Step(t, [pc |-> IF collections[NameOf(t)].present THEN "del" ELSE "del_exists"])
    /\ UNCHANGED <<milvus_available, collections, files, server>>
    /\ ThreadFrame

\* `del self.collections[collection_name]` at line 340
Del(t) ==
    LET n == NameOf(t)
    IN  /\ threads[t].pc = "del"
        /\ ThreadFrame
        /\ UNCHANGED <<milvus_available, files, server>>
        /\ IF collections[n].present
           THEN /\ collections' = [collections EXCEPT ![n] = NoColl]
                /\ Step(t, [pc |-> "del_exists"])
           ELSE /\ UNCHANGED collections
                /\ Return(t, RetBool(FALSE))

\* `if os.path.exists(file_path):` at line 343
DelExists(t) ==
    /\ threads[t].pc = "del_exists"
    /\ IF files[NameOf(t)].present THEN Step(t, [pc |-> "del_remove"])
       ELSE Return(t, RetBool(TRUE))
    /\ UNCHANGED <<milvus_available, collections, files, server>>
    /\ ThreadFrame

\* `os.remove(file_path)` at line 344
DelRemove(t) ==
    LET n == NameOf(t)
    IN  /\ threads[t].pc = "del_remove"
        /\ ThreadFrame
        /\ UNCHANGED <<milvus_available, collections, server>>
        /\ IF files[n].present
           THEN /\ files' = [files EXCEPT ![n] = NoColl]
                /\ Return(t, RetBool(TRUE))
           ELSE /\ UNCHANGED files
                /\ Return(t, RetBool(FALSE))

ThreadNext ==
    \/ \E t \in ThreadIds : \E b \in ThreadBatches(t) : Begin(t, "add_documents", b)
    \/ \E t \in ThreadIds, op \in Methods \ {"add_documents"} : Begin(t, op, NoBatch)
    \/ \E t \in ThreadIds : Primary(t)
    \/ \E t \in ThreadIds : Check(t)
    \/ \E t \in ThreadIds : Load(t)
    \/ \E t \in ThreadIds : CreateCheck(t)
    \/ \E t \in ThreadIds : CreateSet(t)
    \/ \E t \in ThreadIds : CreateSave(t)
    \/ \E t \in ThreadIds : AppendEntry(t)
    \/ \E t \in ThreadIds : Save(t)
    \/ \E t \in ThreadIds : Read(t)
    \/ \E t \in ThreadIds : DelCheck(t)
    \/ \E t \in ThreadIds : Del(t)
    \/ \E t \in ThreadIds : DelExists(t)
    \/ \E t \in ThreadIds : DelRemove(t)

SpecThreads == ThreadInit /\ [][ThreadNext]_vars

\* a thread that is not inside a method and has made a call
Returned(t) == threads[t].pc = "idle" /\ threads[t].calls > 0

\* with the other thread never calling, a call returns what the method
\* returns when it is run in one piece, and leaves the same engine behind
AloneAgrees ==
    \A t \in ThreadIds :
        (Returned(t) /\ threads[Other(t)].calls = 0) =>
            /\ threads[t].ret = threads[t].exp
            /\ World = threads[t].shadow

-----------------------------------------------------------------------------
(* The service specification: the engines of one process.  FileService and   *)
(* ChatService each build a VectorStore of their own when the application     *)
(* starts, the logout route builds one for every logout; they share the       *)
(* storage directory and the Milvus server, nothing else.  The variables      *)
(* milvus_available and collections are the engine of FileService, chat is    *)
(* the engine of ChatService.                                                 *)

\* the session with the empty id, and an ordinary one
ServiceSessions == {<<>>, <<"a">>}

ServiceNames == {format_collection_name(s) : s \in ServiceSessions}

Engine(available, colls) == [milvus_available |-> available, collections |-> colls]

\* self.collections = {} of __init__
NoCollections == [n \in ServiceNames |-> NoColl]

\* the world as the engine e sees it
WorldOf(e) ==
    [milvus_available |-> e.milvus_available, collections |-> e.collections,
     files |-> files, storage_dir |-> storage_dir, server |-> server]

\* the application starts: both services connect to Milvus, or both do not
ServiceInit ==
    /\ milvus_available \in BOOLEAN
    /\ chat = Engine(milvus_available, NoCollections)
    /\ storage_dir = ~milvus_available
    /\ collections = NoCollections
    /\ server = NoCollections
    /\ files = NoCollections
    /\ last = NoCall
    /\ failover_batch = [n \in ServiceNames |-> <<>>]
    /\ added = [n \in ServiceNames |-> [fresh |-> TRUE, primary |-> 0, fallback |-> 0,
                                        partial |-> 0]]
    /\ threads = NoThreads

Shared(w) ==
    /\ files' = w.files
    /\ storage_dir' = w.storage_dir
    /\ server' = w.server

ServiceFrame == UNCHANGED <<last, failover_batch, added, threads>>

\* FileService.process_uploaded_file: self.vector_store.add_documents
Upload(session_id, documents, pf, io) ==
    \E o \in {add_documents(World, session_id, documents, Filename, pf, io)} :
        /\ milvus_available' = o.w.milvus_available
        /\ collections' = o.w.collections
        /\ Shared(o.w)
        /\ UNCHANGED chat
        /\ ServiceFrame

\* ChatService.process_message: collection_exists, then search_documents when
\* it answered true
ChatMessage(session_id, emb, pf1, pf2, io) ==
    \E e \in {collection_exists(WorldOf(chat), session_id, pf1)} :
        \E o \in {IF e.ret.b
                  THEN search_documents(e.w, session_id, emb, emb, MaxTopK,
                                        IF e.w.milvus_available THEN pf2 ELSE "none", io)
                  ELSE e} :
            /\ chat' = Engine(o.w.milvus_available, o.w.collections)
            /\ Shared(o.w)
            /\ UNCHANGED <<milvus_available, collections>>
            /\ ServiceFrame

\* the logout route: a new VectorStore, connected to Milvus or not, and its
\* delete_collection
Logout(session_id, connected, pf, io) ==
    LET built == [WorldOf(Engine(connected, NoCollections))
                     EXCEPT !.storage_dir = storage_dir \/ ~connected]
    IN  \E o \in {delete_collection(built, session_id,
                                    IF connected THEN pf ELSE "none", io)} :
            /\ Shared(o.w)
            /\ UNCHANGED <<milvus_available, collections, chat>>
            /\ ServiceFrame

ServiceNext ==
    \/ \E s \in ServiceSessions, b \in {<<FA>>, <<FB>>}, pf \in Faults(World, AddFaults) :
           Room(s, b, MaxDocs) /\ Upload(s, b, pf, "ok")
    \/ \E s \in ServiceSessions, emb \in QueryEmbeddings,
          pf1 \in Faults(WorldOf(chat), ExistsFaults), pf2 \in SearchFaults :
           ChatMessage(s, emb, pf1, pf2, "ok")
    \/ \E s \in ServiceSessions, connected \in BOOLEAN, pf \in DeleteFaults :
           Logout(s, connected, pf, "ok")

SpecServices == ServiceInit /\ [][ServiceNext]_vars

-----------------------------------------------------------------------------
(* The name specification: _format_collection_name applied to two session    *)
(* ids                                                                        *)

\* a lower-case letter, an upper-case letter, a digit, the underscore, and
\* two characters outside [a-zA-Z0-9_]
IdChars == {"a", "Z", "0", "_", "-", "."}

RECURSIVE IdsOfLength(_)
IdsOfLength(k) ==
    IF k = 0 THEN {<<>>}
    ELSE {Append(s, c) : s \in IdsOfLength(k - 1), c \in IdChars}

Ids == UNION {IdsOfLength(k) : k \in 0..MaxIdLen}

\* two session ids, and the names derived from them once they are formatted
Formatting(op, a, b, name_a, name_b) ==
    [op |-> op, a |-> a, b |-> b, name_a |-> name_a, name_b |-> name_b]

NameInit ==
    /\ last \in {Formatting("ids", a, b, <<>>, <<>>) : a \in Ids, b \in Ids}
    /\ milvus_available = FALSE
    /\ storage_dir = TRUE
    /\ collections = <<>>
    /\ server = <<>>
    /\ files = <<>>
    /\ failover_batch = <<>>
    /\ added = <<>>
    /\ threads = NoThreads
    /\ chat = NoEngine

Format ==
    /\ last.op = "ids"
    /\ last' = Formatting("names", last.a, last.b,
                          format_collection_name(last.a), format_collection_name(last.b))
    /\ UNCHANGED <<milvus_available, collections, files, storage_dir, server,
                   failover_batch, added, threads, chat>>

NameNext == Format

SpecNames == NameInit /\ [][NameNext]_vars

-----------------------------------------------------------------------------
(* The write specification: _save_collection_to_file step by step.  Two      *)
(* engines on the fallback share the storage directory: one adds documents   *)
(* (milvus_available, collections), the other one reads (chat).  A step of   *)
(* the adding engine is one operation on the collection file: open(.., 'w')  *)
(* truncates it, json.dump writes it piece by piece, leaving the with block  *)
(* completes it.  The process may die at any step and be started again.      *)

WriteSession == <<"a">>

WriteName == format_collection_name(WriteSession)

WriteBatches == {<<FA>>, <<FB>>, <<FA, FB>>, <<FA, FM>>}

\* a file that is being written: the fragments that are in it so far, in a
\* document that json.load cannot read
Partial(docs) == [present |-> TRUE, documents |-> docs, partial |-> TRUE]

IsPartial(file) == "partial" \in DOMAIN file

\* json.load of a file that is not a complete document raises
ReadMode(file) == IF IsPartial(file) THEN "read_fail" ELSE "ok"

\* the engine inside add_documents: where it stands (pc), the contents that
\* the calls of _save_collection_to_file still to come will write (saves),
\* the number of fragments json.dump has written (written), the value the
\* call returns, and as history the file as it was before open (pre)
Writer(pc, saves, written, ret, pre) ==
    [pc |-> pc, saves |-> saves, written |-> written, ret |-> ret, pre |-> pre]

Idle(ret) == Writer("idle", <<>>, 0, ret, NoColl)

WriteInit ==
    /\ milvus_available = FALSE
    /\ storage_dir = TRUE
    /\ collections = [n \in Names |-> NoColl]
    /\ chat = Engine(FALSE, [n \in Names |-> NoColl])
    /\ server = [n \in Names |-> NoColl]
    /\ files \in [Names -> PersistedFiles]
    /\ last = NoCall
    /\ failover_batch = [n \in Names |-> <<>>]
    /\ added = [n \in Names |-> [fresh |-> ~files[n].present, primary |-> 0,
                                 fallback |-> 0, partial |-> 0]]
    /\ threads = <<Idle(RetNone)>>

WriteFrame == UNCHANGED <<milvus_available, storage_dir, server, failover_batch, added>>

\* _add_documents_fallback up to its first write: the check, the load or the
\* creation, and the loop, all in memory
AddBegin(documents) ==
    LET n == WriteName
        o == add_documents_fallback(World, n, documents, Filename, ReadMode(files[n]))
        loaded  == files[n].present /\ ~IsPartial(files[n])
        created == ~collections[n].present /\ ~loaded
        saves == (IF created THEN <<Coll(<<>>)>> ELSE <<>>)
                 \o (IF o.ret.b THEN <<o.w.collections[n]>> ELSE <<>>)
    IN  /\ threads[1].pc = "idle"
        /\ collections' = o.w.collections
        /\ threads' = <<IF saves = <<>> THEN Idle(o.ret)
                        ELSE Writer("open", saves, 0, o.ret, files[n])>>
        /\ UNCHANGED <<files, chat, last>>
        /\ WriteFrame

\* `with open(file_path, 'w') as f:` at line 120
OpenFile ==
    /\ threads[1].pc = "open"
    /\ files' = [files EXCEPT ![WriteName] = Partial(<<>>)]
    /\ threads' = <<[threads[1] EXCEPT !.pc = "dump", !.written = 0,
                                       !.pre = files[WriteName]]>>
    /\ UNCHANGED <<collections, chat, last>>
    /\ WriteFrame

\* json.dump at line 121 writing the next fragment
DumpFragment ==
    LET T == threads[1]
        docs == Head(T.saves).documents
    IN  /\ T.pc = "dump"
        /\ T.written < Len(docs)
        /\ files' = [files EXCEPT ![WriteName] = Partial(SubSeq(docs, 1, T.written + 1))]
        /\ threads' = <<[T EXCEPT !.written = T.written + 1]>>
        /\ UNCHANGED <<collections, chat, last>>
        /\ WriteFrame

\* the end of json.dump and of the with block; after the write made by
\* _create_fallback_collection the one of line 205 follows
CloseFile ==
    LET T == threads[1]
    IN  /\ T.pc = "dump"
        /\ T.written = Len(Head(T.saves).documents)
        /\ files' = [files EXCEPT ![WriteName] = Head(T.saves)]
        /\ threads' = <<IF Tail(T.saves) = <<>> THEN Idle(T.ret)
                        ELSE Writer("open", Tail(T.saves), 0, T.ret, T.pre)>>
        /\ UNCHANGED <<collections, chat, last>>
        /\ WriteFrame

\* the process dies and is started again with Milvus unreachable: __init__ of
\* both engines
Crash ==
    /\ collections' = [n \in Names |-> NoColl]
    /\ chat' = Engine(FALSE, [n \in Names |-> NoColl])
    /\ threads' = <<Idle(RetNone)>>
    /\ last' = NoCall
    /\ UNCHANGED files
    /\ WriteFrame

\* search_documents of the other engine
OtherSearch(emb) ==
    \E o \in {search_documents(WorldOf(chat), WriteSession, emb, emb, MaxTopK, "none",
                               ReadMode(files[WriteName]))} :
        /\ chat' = Engine(o.w.milvus_available, o.w.collections)
        /\ last' = Call("search_documents", WriteSession, NoBatch, emb, o)
        /\ UNCHANGED <<collections, files, threads>>
        /\ WriteFrame

\* get_collection_stats of the other engine
OtherStats ==
    \E o \in {get_collection_stats(WorldOf(chat), WriteSession, "none",
                                   ReadMode(files[WriteName]))} :
        /\ chat' = Engine(o.w.milvus_available, o.w.collections)
        /\ last' = Call("get_collection_stats", WriteSession, NoBatch, None, o)
        /\ UNCHANGED <<collections, files, threads>>
        /\ WriteFrame

WriteNext ==
    \/ \E b \in WriteBatches : Room(WriteSession, b, MaxDocs) /\ AddBegin(b)
    \/ OpenFile
    \/ DumpFragment
    \/ CloseFile
    \/ Crash
    \/ \E emb \in QueryEmbeddings : OtherSearch(emb)
    \/ OtherStats

SpecWrites == WriteInit /\ [][WriteNext]_vars

-----------------------------------------------------------------------------
(* The primary specification: add_documents on Milvus call by call.  A step  *)
(* of the engine is one call to Milvus (utility.has_collection, the creation *)
(* of the collection and its index, insert, flush, load), which may raise;   *)
(* the except clause and the fallback that follows it are part of the step   *)
(* that raised.  search_documents and delete_collection are single steps.    *)

PrimarySession == <<"a">>

PrimaryName == format_collection_name(PrimarySession)

PrimaryBatches == {<<FA>>, <<FB>>, <<FW>>, <<FA, FM>>}

\* a collection of the Milvus server: the fragments inserted, how many of
\* them flush has sealed, and whether the collection is loaded
MilvusColl(present, docs, flushed, loaded) ==
    [present |-> present, documents |-> docs, flushed |-> flushed, loaded |-> loaded]

NoMilvusColl == MilvusColl(FALSE, <<>>, 0, FALSE)

\* the engine inside a method: where it stands (pc), the method and its batch,
\* the value returned, and as history the calls to Milvus the method has made
\* (log), and for a search whether it found the collection loaded (was_loaded)
\* and whether the call before it was an add_documents that returned true with
\* Milvus active (after_add)
Caller(pc, op, documents, ret, log, was_loaded, after_add) ==
    [pc |-> pc, op |-> op, documents |-> documents, ret |-> ret, log |-> log,
     was_loaded |-> was_loaded, after_add |-> after_add]

PrimaryInit ==
    /\ milvus_available = TRUE
    /\ storage_dir \in BOOLEAN
    /\ collections = [n \in Names |-> NoColl]
    /\ files = [n \in Names |-> NoColl]
    /\ server = [n \in Names |-> NoMilvusColl]
    /\ last = NoCall
    /\ failover_batch = [n \in Names |-> <<>>]
    /\ added = [n \in Names |-> [fresh |-> TRUE, primary |-> 0, fallback |-> 0,
                                 partial |-> 0]]
    /\ chat = NoEngine
    /\ threads = <<Caller("idle", "none", NoBatch, RetNone, <<>>, FALSE, FALSE)>>

PrimaryFrame == UNCHANGED <<storage_dir, last, failover_batch, added, chat>>

Returns(ret, log) ==
    threads' = <<[threads[1] EXCEPT !.pc = "idle", !.ret = ret, !.log = log]>>

Goes(pc, log) == threads' = <<[threads[1] EXCEPT !.pc = pc, !.log = log]>>

\* the except clause at 181-183 and the call at 186; in_create: the exception
\* was raised inside create_collection, whose own except clause (95-98) has
\* made the fallback collection
FailsOver(in_create, log) ==
    LET n  == PrimaryName
        w0 == SetFallback(World)
        w1 == IF in_create THEN create_fallback_collection(w0, n, "ok") ELSE w0
        f  == add_documents_fallback(w1, n, threads[1].documents, Filename, "ok")
    IN  /\ milvus_available' = FALSE
        /\ collections' = f.w.collections
        /\ files' = f.w.files
        /\ Returns(f.ret, log)

StaysOnMilvus == UNCHANGED <<milvus_available, collections, files>>

\* the call and `if self.milvus_available:` at line 157
MilvusBegin(documents) ==
    LET f == add_documents_fallback(World, PrimaryName, documents, Filename, "ok")
    IN  /\ threads[1].pc = "idle"
        /\ PrimaryFrame
        /\ UNCHANGED server
        /\ IF milvus_available
           THEN /\ threads' = <<Caller("has_collection", "add_documents", documents,
                                       RetNone, <<>>, FALSE, FALSE)>>
                /\ StaysOnMilvus
           ELSE /\ threads' = <<Caller("idle", "add_documents", documents, f.ret, <<>>,
                                       FALSE, FALSE)>>
                /\ collections' = f.w.collections
                /\ files' = f.w.files
                /\ UNCHANGED milvus_available

\* utility.has_collection at line 82, and the handle of line 83
MilvusHas(raises) ==
    LET log == Append(threads[1].log, "has_collection")
    IN  /\ threads[1].pc = "has_collection"
        /\ PrimaryFrame
        /\ UNCHANGED server
        /\ IF raises THEN FailsOver(TRUE, log)
           ELSE /\ Goes(IF server[PrimaryName].present THEN "insert" ELSE "create_index", log)
                /\ StaysOnMilvus

\* lines 85-94: the collection is made, then its index
MilvusCreate(raises) ==
    LET log == Append(threads[1].log, "create_index")
    IN  /\ threads[1].pc = "create_index"
        /\ PrimaryFrame
        /\ server' = [server EXCEPT ![PrimaryName] = MilvusColl(TRUE, <<>>, 0, FALSE)]
        /\ IF raises THEN FailsOver(TRUE, log)
           ELSE Goes("insert", log) /\ StaysOnMilvus

\* the loop at 167-172 and collection.insert at 175
MilvusInsert(raises) ==
    LET T   == threads[1]
        log == Append(T.log, "insert")
    IN  /\ T.pc = "insert"
        /\ PrimaryFrame
        /\ IF AnyMalformed(T.documents)
           THEN FailsOver(FALSE, T.log) /\ UNCHANGED server
           ELSE IF raises \/ ~FitsSchema(T.documents)
           THEN FailsOver(FALSE, log) /\ UNCHANGED server
           ELSE /\ server' = [server EXCEPT ![PrimaryName].documents =
                                                @ \o Entries(T.documents, Filename)]
                /\ Goes("flush", log)
                /\ StaysOnMilvus

\* collection.flush at line 176
MilvusFlush(raises) ==
    LET log == Append(threads[1].log, "flush")
    IN  /\ threads[1].pc = "flush"
        /\ PrimaryFrame
        /\ IF raises THEN FailsOver(FALSE, log) /\ UNCHANGED server
           ELSE /\ server' = [server EXCEPT ![PrimaryName].flushed =
                                                Len(server[PrimaryName].documents)]
                /\ Goes("load", log)
                /\ StaysOnMilvus

\* a load that is left to the caller
MilvusLoad_skipped(raises) ==
    /\ threads[1].pc = "load"
    /\ PrimaryFrame
    /\ UNCHANGED server
    /\ IF raises THEN FailsOver(FALSE, threads[1].log)
       ELSE Returns(RetBool(TRUE), threads[1].log) /\ StaysOnMilvus

\* collection.load at line 177 and `return True`
MilvusLoad(raises) ==
    LET log == Append(threads[1].log, "load")
    IN  /\ threads[1].pc = "load"
        /\ PrimaryFrame
        /\ IF raises THEN FailsOver(FALSE, log) /\ UNCHANGED server
           ELSE /\ server' = [server EXCEPT ![PrimaryName].loaded = TRUE]
                /\ Returns(RetBool(TRUE), log)
                /\ StaysOnMilvus

\* what a search of a loaded collection sees: the fragments flush has sealed
Queryable(coll) ==
    IF coll.loaded THEN SubSeq(coll.documents, 1, coll.flushed) ELSE <<>>

\* search_documents, lines 216-251 with no call raising, or the fallback
MilvusSearch(emb) ==
    LET n  == PrimaryName
        T  == threads[1]
        f  == search_documents_fallback(World, n, emb, MaxDocs, "ok")
        loaded == [server EXCEPT ![n].loaded = TRUE]
        ret == IF ~milvus_available THEN f.ret
               ELSE IF ~server[n].present \/ emb = None THEN RetList(<<>>)
               ELSE RetList(Take(SortDesc(ScoreAll(emb, Queryable(loaded[n]))), MaxDocs))
    IN  /\ T.pc = "idle"
        /\ PrimaryFrame
        /\ threads' = <<Caller("idle", "search_documents", NoBatch, ret, <<>>,
                               server[n].loaded,
                               T.op = "add_documents" /\ T.ret.b /\ milvus_available)>>
        /\ server' = IF milvus_available /\ server[n].present THEN loaded ELSE server
        /\ collections' = IF milvus_available THEN collections ELSE f.w.collections
        /\ UNCHANGED <<milvus_available, files>>

\* delete_collection with no call raising
MilvusDrop ==
    LET n == PrimaryName
        f == delete_collection_fallback(World, n, "ok")
    IN  /\ threads[1].pc = "idle"
        /\ PrimaryFrame
        /\ threads' = <<Caller("idle", "delete_collection", NoBatch, f.ret, <<>>,
                               FALSE, FALSE)>>
        /\ server' = IF milvus_available THEN [server EXCEPT ![n] = NoMilvusColl]
                     ELSE server
        /\ collections' = f.w.collections
        /\ files' = f.w.files
        /\ UNCHANGED milvus_available

PrimaryNext ==
    \/ \E b \in PrimaryBatches : Room(PrimarySession, b, MaxDocs) /\ MilvusBegin(b)
    \/ \E raises \in BOOLEAN : MilvusHas(raises)
    \/ \E raises \in BOOLEAN : MilvusCreate(raises)
    \/ \E raises \in BOOLEAN : MilvusInsert(raises)
    \/ \E raises \in BOOLEAN : MilvusFlush(raises)
    \/ \E raises \in BOOLEAN : MilvusLoad(raises)
    \/ \E emb \in QueryEmbeddings : MilvusSearch(emb)
    \/ MilvusDrop

SpecPrimary == PrimaryInit /\ [][PrimaryNext]_vars

-----------------------------------------------------------------------------
(* Claims checked under Spec *)

SameName(n) == {s \in SessionIds : format_collection_name(s) = n}

\* C1: whenever a call made with Milvus active meets an exception of Milvus,
\* the engine is on the fallback when the call returns and the value returned
\* is the one the fallback branch of the same method gives in the fallback
\* store as it is; for each of collection_exists, add_documents,
\* search_documents, delete_collection and get_collection_stats.
C1_FailoverRetriesOnFallback ==
    milvus_available =>
        \A s \in SessionIds :
            LET n  == format_collection_name(s)
                fb == SetFallback(World)
                Retried(o, value) ==
                    PrimaryRaised(o.raised) => ~o.w.milvus_available /\ o.ret = value
            IN  /\ \A pf \in ExistsFaults :
                       Retried(collection_exists(World, s, pf),
                               RetBool(collection_exists_fallback(fb, n)))
                /\ \A b \in Batches, pf \in AddFaults, io \in IoModes :
                       Retried(add_documents(World, s, b, Filename, pf, io),
                               add_documents_fallback(fb, n, b, Filename, io).ret)
                /\ \A emb \in QueryEmbeddings, emb2 \in QueryEmbeddings,
                      top_k \in 1..MaxTopK, pf \in SearchFaults, io \in IoModes :
                       Retried(search_documents(World, s, emb, emb2, top_k, pf, io),
                               search_documents_fallback(fb, n,
                                   LastAnswer(World, s, emb, emb2, pf), top_k, io).ret)
                /\ \A pf \in DeleteFaults, io \in IoModes :
                       Retried(delete_collection(World, s, pf, io),
                               delete_collection_fallback(fb, n, io).ret)
                /\ \A pf \in StatsFaults, io \in IoModes :
                       Retried(get_collection_stats(World, s, pf, io),
                               get_collection_stats_fallback(fb, n, io).ret)

\* a search that met a failure of Milvus and answered from the file of the
\* fallback store
C1_Witness ==
    /\ last.op = "search_documents"
    /\ last.raised = "backend"
    /\ ~milvus_available
    /\ Len(last.ret.docs) > 0

\* C2: once milvus_available is False it is False in every later state,
\* whatever method is called and whatever Milvus does.
C2_FailoverIsSticky == [][~milvus_available => ~milvus_available']_vars

\* an engine that began on Milvus, failed over, and then completed a call on
\* the fallback
C2_Witness ==
    /\ ~milvus_available
    /\ \E n \in Names : server[n].present
    /\ last.op = "add_documents"
    /\ last.raised = "none"
    /\ last.ret.b

IsPart(batch, documents) ==
    \E off \in 0..(Len(documents) - Len(batch)) :
        SubSeq(documents, off + 1, off + Len(batch)) = batch

\* C3: an add_documents call of a well-formed batch during which Milvus raises
\* returns true with the batch in the fallback collection, and from then on,
\* until a delete_collection of that collection, the engine stays on the
\* fallback, the collection in memory contains the batch, and every search
\* for which the provider answers ranks every fragment of the batch.
C3_FailoverAddIsFound ==
    /\ \A s \in SessionIds, b \in Batches, pf \in AddFaults, io \in IoModes :
           LET o == add_documents(World, s, b, Filename, pf, io)
           IN  (milvus_available /\ PrimaryRaised(o.raised) /\ ~AnyMalformed(b)) =>
                   /\ o.ret = RetBool(TRUE)
                   /\ IsPart(Entries(b, Filename),
                             o.w.collections[format_collection_name(s)].documents)
    /\ \A n \in Names :
           failover_batch[n] # <<>> =>
               /\ ~milvus_available
               /\ collections[n].present
               /\ IsPart(failover_batch[n], collections[n].documents)
               /\ \A s \in SameName(n), emb \in QueryEmbeddings \ {None}, io \in IoModes :
                      LET k == Len(collections[n].documents)
                          o == search_documents(World, s, emb, emb, k, "none", io)
                      IN  \A i \in 1..Len(failover_batch[n]) :
                              \E j \in 1..Len(o.ret.docs) :
                                  o.ret.docs[j] =
                                      Scored(failover_batch[n][i],
                                             cosine_similarity(emb,
                                                 failover_batch[n][i].embedding))

\* a search, after a failing-over add of two fragments, that returned both
C3_Witness ==
    /\ last.op = "search_documents"
    /\ last.emb # None
    /\ last.raised = "none"
    /\ Len(failover_batch[last.collection_name]) = 2
    /\ \A i \in 1..2 :
           \E j \in 1..Len(last.ret.docs) :
               last.ret.docs[j].text = failover_batch[last.collection_name][i].text

\* C4 as stated: after add_documents calls that returned true for a
\* collection that was absent before them, with no delete_collection in
\* between, get_collection_stats reports the sum of their batch sizes,
\* whatever Milvus did.
C4_CountIsSumOfBatches ==
    (/\ last.op = "get_collection_stats"
     /\ added[last.collection_name].fresh
     /\ added[last.collection_name].primary + added[last.collection_name].fallback > 0)
    => /\ last.ret.kind = "stats"
       /\ last.ret.num_entities =
              added[last.collection_name].primary + added[last.collection_name].fallback

\* what add_documents calls have stored, since the collection was absent, on
\* the backend that is active in w
StoredOnActive(w, n) ==
    IF w.milvus_available THEN added[n].primary
    ELSE added[n].fallback + added[n].partial

\* C4 amended: get_collection_stats reports the number of fragments that
\* add_documents calls stored on the backend that answers it: with Milvus
\* active the sum of the sizes of all batches added, on the fallback the sum
\* of the sizes of the batches added during or after the failover (and the
\* fragments a call that returned false left behind); batches stored on
\* Milvus before a failover are not counted.
C4_CountIsSumOnActiveBackend ==
    \A s \in SessionIds, pf \in Faults(World, StatsFaults), io \in ReadModes :
        LET n == format_collection_name(s)
            o == get_collection_stats(World, s, pf, io)
        IN  (added[n].fresh /\ StoredOnActive(o.w, n) > 0) =>
                o.ret = RetStats(n, StoredOnActive(o.w, n),
                                 IF o.w.milvus_available THEN "milvus" ELSE "file")

\* two single-fragment batches added on the fallback after one was added on
\* Milvus, and get_collection_stats answering 2
C4_Witness ==
    /\ last.op = "get_collection_stats"
    /\ last.ret.kind = "stats"
    /\ last.ret.num_entities = 2
    /\ added[last.collection_name].fresh
    /\ added[last.collection_name].primary = 1
    /\ added[last.collection_name].fallback = 2
    /\ ~milvus_available

\* what the fallback store holds for a collection: the collection in memory
\* or, when it is not in memory, the file that would be loaded
FallbackContent(mem, fs, n) == IF mem[n].present THEN mem[n] ELSE fs[n]

\* C6 as stated: add_documents rejects a batch with an embedding whose
\* dimension is not 768, and the collection of the session holds on every
\* backend what it held before (nothing stored, no collection created).
C6_WrongDimensionBatchRejected ==
    [][(last'.op = "add_documents" /\ ~FitsSchema(last'.documents)) =>
           /\ ~last'.ret.b
           /\ server'[last'.collection_name] = server[last'.collection_name]
           /\ files'[last'.collection_name] = files[last'.collection_name]
           /\ FallbackContent(collections', files', last'.collection_name)
                  = FallbackContent(collections, files, last'.collection_name)]_vars

\* C7 as stated: an add_documents call with Milvus active and a malformed
\* batch (an embedding of the wrong dimension, or a fragment without a
\* required field) leaves Milvus active and does not touch the fallback store.
C7_CallerErrorsDoNotFailOver ==
    [][(/\ milvus_available
        /\ last'.op = "add_documents"
        /\ (AnyMalformed(last'.documents) \/ ~FitsSchema(last'.documents))) =>
           /\ milvus_available'
           /\ collections' = collections
           /\ files' = files]_vars

WorldAfter ==
    [milvus_available |-> milvus_available', collections |-> collections',
     files |-> files', storage_dir |-> storage_dir', server |-> server']

SameStores(w1, w2) ==
    /\ w1.collections = w2.collections
    /\ w1.files = w2.files
    /\ w1.server = w2.server

\* C8 as stated: delete_collection returns true in every state, a second call
\* right after it returns true too, and leaves the in-memory map, the files
\* and the Milvus collections as the first call left them.
C8_DeleteAlwaysTrueAndIdempotent ==
    [][last'.op = "delete_collection" =>
           /\ last'.ret.b
           /\ \A s \in SameName(last'.collection_name),
                 pf \in Faults(WorldAfter, DeleteFaults), io \in WriteModes :
                  LET o2 == delete_collection(WorldAfter, s, pf, io)
                  IN  o2.ret.b /\ SameStores(o2.w, WorldAfter)]_vars

\* C8 amended: delete_collection returns true whether or not the collection
\* existed, unless removing the collection file raises (then it returns
\* false, the in-memory collection gone and the file left); after a call that
\* returned true the collection is neither in memory nor on file, and a
\* second call right after it returns true and leaves the in-memory map, the
\* files and the Milvus collections as the first call left them.
C8_DeleteIdempotentUnlessRemoveFails ==
    \A s \in SessionIds, pf1 \in Faults(World, DeleteFaults), io1 \in WriteModes :
        LET n  == format_collection_name(s)
            o1 == delete_collection(World, s, pf1, io1)
        IN  /\ o1.ret.kind = "bool"
            /\ o1.ret.b = ~(files[n].present /\ io1 = "write_fail")
            /\ ~o1.w.collections[n].present
            /\ o1.ret.b =>
                   /\ ~o1.w.files[n].present
                   /\ \A pf2 \in Faults(o1.w, DeleteFaults), io2 \in WriteModes :
                          LET o2 == delete_collection(o1.w, s, pf2, io2)
                          IN  o2.ret = RetBool(TRUE) /\ SameStores(o2.w, o1.w)

\* a second delete_collection in a row that returned true, on an engine that
\* failed over while Milvus still holds the collection
C8_Witness ==
    /\ last.op = "delete_collection"
    /\ last.repeat
    /\ last.ret.b
    /\ ~milvus_available
    /\ server[last.collection_name].present
    /\ ~collections[last.collection_name].present
    /\ ~files[last.collection_name].present

\* the collection is absent from the backend that is active in w
AbsentOnActive(w, n) ==
    IF w.milvus_available THEN ~server[n].present
    ELSE ~collections[n].present /\ ~files[n].present

\* C9 as stated: search_documents returns the empty list when the collection
\* does not exist on the active backend or when the provider gives no query
\* embedding, and in the second case the call does not change the active
\* backend.
C9_EmptyAndBackendKept ==
    [][last'.op = "search_documents" =>
           /\ last'.ret.kind = "list"
           /\ AbsentOnActive(WorldAfter, last'.collection_name) => last'.ret.docs = <<>>
           /\ last'.emb = None =>
                  /\ last'.ret.docs = <<>>
                  /\ milvus_available' = milvus_available]_vars

\* C9 amended: search_documents returns the empty list when the collection
\* does not exist on the active backend or when the provider gives no query
\* embedding; in the second case the active backend changes only if Milvus
\* itself raised during the call (before the provider was asked, or in its
\* search after a first answer): the missing embedding alone never changes it.
C9_EmptyAndBackendKeptUnlessMilvusRaised ==
    \A s \in SessionIds, emb \in QueryEmbeddings, emb2 \in QueryEmbeddings,
       top_k \in 1..MaxTopK, pf \in Faults(World, SearchFaults), io \in IoModes :
        LET n == format_collection_name(s)
            o == search_documents(World, s, emb, emb2, top_k, pf, io)
        IN  /\ o.ret.kind = "list"
            /\ AbsentOnActive(o.w, n) => o.ret.docs = <<>>
            /\ LastAnswer(World, s, emb, emb2, pf) = None =>
                   /\ o.ret.docs = <<>>
                   /\ (o.w.milvus_available # milvus_available) =>
                          (pf = "has" \/ AsksTwice(World, s, emb, pf))

\* a search for which the provider gave no embedding, on an engine that is
\* still on Milvus, where the collection holds a fragment
C9_Witness ==
    /\ last.op = "search_documents"
    /\ last.emb = None
    /\ last.ret.docs = <<>>
    /\ milvus_available
    /\ Len(server[last.collection_name].documents) > 0

\* C12 as stated: when Milvus raises during the existence check,
\* collection_exists returns false and the engine is on the fallback, whether
\* or not the fallback store holds the collection.
C12_ExistsDegradesToFalse ==
    milvus_available =>
        \A s \in SessionIds :
            LET o == collection_exists(World, s, "has")
            IN  o.ret = RetBool(FALSE) /\ ~o.w.milvus_available

\* C12 amended: collection_exists always returns a boolean; when Milvus raises
\* during the existence check the engine is on the fallback afterwards and
\* the value is the answer of the fallback store: true exactly when the
\* collection is in memory or has a file, false otherwise.
C12_ExistsDegradesToFallbackAnswer ==
    \A s \in SessionIds, pf \in Faults(World, ExistsFaults) :
        LET n == format_collection_name(s)
            o == collection_exists(World, s, pf)
        IN  /\ o.ret.kind = "bool"
            /\ (milvus_available /\ pf = "has") =>
                   /\ ~o.w.milvus_available
                   /\ o.raised = "backend"
                   /\ o.ret.b = (collections[n].present \/ files[n].present)

\* an existence check during which Milvus raised and that answered true from
\* the file of the fallback store
C12_Witness ==
    /\ last.op = "collection_exists"
    /\ last.raised = "backend"
    /\ last.ret = RetBool(TRUE)
    /\ ~milvus_available
    /\ ~collections[last.collection_name].present
    /\ files[last.collection_name].present

\* the collection exists on the backend that is active in w
ExistsOnActive(w, n) ==
    IF w.milvus_available THEN w.server[n].present
    ELSE w.collections[n].present \/ w.files[n].present

\* the record that describes the collection on the backend that is active in w
StatsOfActive(w, n) ==
    IF w.milvus_available THEN RetStats(n, Len(w.server[n].documents), "milvus")
    ELSE RetStats(n, Len(w.collections[n].documents), "file")

\* C13 as stated: get_collection_stats returns null exactly when the
\* collection does not exist on the backend that is active when the call
\* returns, and otherwise the record with the collection name, the number of
\* fragments of the collection on that backend and the name of that backend.
C13_StatsNullIffAbsent ==
    \A s \in SessionIds, pf \in Faults(World, StatsFaults), io \in ReadModes :
        LET n == format_collection_name(s)
            o == get_collection_stats(World, s, pf, io)
        IN  o.ret = IF ExistsOnActive(o.w, n) THEN StatsOfActive(o.w, n) ELSE RetNone

\* the fallback has the collection only as a file, and the file cannot be read
Unreadable(w, n, io) ==
    /\ ~w.milvus_available
    /\ ~w.collections[n].present
    /\ w.files[n].present
    /\ io = "read_fail"

\* C13 amended: get_collection_stats returns null exactly when the collection
\* does not exist on the backend that is active when the call returns, or
\* when that backend is the fallback, the collection is not in memory and its
\* file cannot be read; otherwise it returns the record with the collection
\* name, the number of fragments of the collection on that backend (on the
\* fallback: of the collection in memory, loaded from its file if need be)
\* and the name of that backend.
C13_StatsNullIffAbsentOrUnreadable ==
    \A s \in SessionIds, pf \in Faults(World, StatsFaults), io \in ReadModes :
        LET n == format_collection_name(s)
            o == get_collection_stats(World, s, pf, io)
        IN  o.ret = IF ExistsOnActive(o.w, n) /\ ~Unreadable(o.w, n, io)
                    THEN StatsOfActive(o.w, n)
                    ELSE RetNone

\* a get_collection_stats call during which Milvus raised and that answered
\* with the record of the fallback collection, whose size differs from the
\* size of the collection on Milvus
C13_Witness ==
    /\ last.op = "get_collection_stats"
    /\ last.raised = "backend"
    /\ last.ret.kind = "stats"
    /\ last.ret.name = last.collection_name
    /\ last.ret.storage_type = "file"
    /\ last.ret.num_entities = Len(collections[last.collection_name].documents)
    /\ last.ret.num_entities # Len(server[last.collection_name].documents)

\* each public method returns a value of its type whatever Milvus and the
\* file system do
ReturnsValue(s) ==
    /\ \A pf \in Faults(World, ExistsFaults) :
           collection_exists(World, s, pf).ret.kind = "bool"
    /\ \A b \in Batches, pf \in Faults(World, AddFaults), io \in IoModes :
           add_documents(World, s, b, Filename, pf, io).ret.kind = "bool"
    /\ \A emb \in QueryEmbeddings, emb2 \in QueryEmbeddings, top_k \in 1..MaxTopK,
          pf \in Faults(World, SearchFaults), io \in IoModes :
           search_documents(World, s, emb, emb2, top_k, pf, io).ret.kind = "list"
    /\ \A pf \in Faults(World, DeleteFaults), io \in IoModes :
           delete_collection(World, s, pf, io).ret.kind = "bool"
    /\ \A pf \in Faults(World, StatsFaults), io \in IoModes :
           get_collection_stats(World, s, pf, io).ret.kind \in {"stats", "none"}

\* a failed read of the collection file makes search_documents return the
\* empty list and get_collection_stats null, a failed removal of the file
\* makes delete_collection return false
ReadersAndDeleteReportFailure(s) ==
    LET n == format_collection_name(s)
    IN  /\ \A emb \in QueryEmbeddings, emb2 \in QueryEmbeddings, top_k \in 1..MaxTopK,
              pf \in Faults(World, SearchFaults), io \in IoModes :
               LET o == search_documents(World, s, emb, emb2, top_k, pf, io)
               IN  Unreadable(o.w, n, io) => o.ret = RetList(<<>>)
        /\ \A pf \in Faults(World, StatsFaults), io \in IoModes :
               LET o == get_collection_stats(World, s, pf, io)
               IN  Unreadable(o.w, n, io) => o.ret = RetNone
        /\ \A pf \in Faults(World, DeleteFaults), io \in IoModes :
               LET o == delete_collection(World, s, pf, io)
               IN  (files[n].present /\ io = "write_fail") => o.ret = RetBool(FALSE)

\* C14 as stated: whatever Milvus and the files of the fallback do, every
\* public method returns a value instead of raising, and the value is the
\* failure value (false, the empty list, null) when the fallback fails:
\* add_documents returns false when the batch ends on the fallback and the
\* collection file cannot be written, or cannot be read when it is needed.
C14_FailuresAreReported ==
    \A s \in SessionIds :
        /\ ReturnsValue(s)
        /\ ReadersAndDeleteReportFailure(s)
        /\ \A b \in Batches, pf \in Faults(World, AddFaults), io \in IoModes :
               LET o == add_documents(World, s, b, Filename, pf, io)
               IN  (/\ ~o.w.milvus_available
                    /\ \/ io = "write_fail"
                       \/ Unreadable(SetFallback(World), format_collection_name(s), io))
                   => o.ret = RetBool(FALSE)

\* the fragments the fallback store holds for a collection
FallbackDocs(mem, fs, n) == FallbackContent(mem, fs, n).documents

\* what the fallback store held, or nothing, followed by entries of the
\* batch of the call
GrownBy(before, after, documents) ==
    \E base \in {before, <<>>}, k \in 0..Len(AppendedEntries(documents, Filename)) :
        after = base \o SubSeq(AppendedEntries(documents, Filename), 1, k)

\* C21: no call copies fragments from Milvus into the fallback store: after
\* every call the collection in memory and its file hold nothing, or what the
\* fallback store held before the call followed by entries of the batch the
\* call itself was given, and a call that ends with Milvus active adds nothing
\* to them; so a search_documents or get_collection_stats call answered by the
\* fallback reflects the fallback collection alone: the count is its size,
\* every result is one of its fragments, and the answer is the empty list or
\* null when nothing was added through the fallback, whatever Milvus holds.
C21_NoMigrationBetweenBackends ==
    [][LET n     == last'.collection_name
           old   == FallbackDocs(collections, files, n)
           batch == IF last'.op = "add_documents" /\ ~milvus_available'
                    THEN last'.documents ELSE NoBatch
       IN  /\ GrownBy(old, collections'[n].documents, batch)
           /\ \/ files'[n] = files[n]
              \/ GrownBy(old, files'[n].documents, batch)
           /\ (~milvus_available' /\ last'.op = "get_collection_stats") =>
                  \/ last'.ret = RetNone /\ ~collections'[n].present
                  \/ last'.ret = RetStats(n, Len(collections'[n].documents), "file")
           /\ (~milvus_available' /\ last'.op = "search_documents") =>
                  /\ \A j \in 1..Len(last'.ret.docs) :
                         \E i \in 1..Len(collections'[n].documents) :
                             last'.ret.docs[j].text = collections'[n].documents[i].text
                  /\ (added[n].fresh /\ added[n].fallback + added[n].partial = 0) =>
                         last'.ret.docs = <<>>]_vars

\* a search on an engine that failed over, for a collection of which Milvus
\* holds a fragment and the fallback store none: the provider answered and
\* the result is empty
C21_Witness ==
    /\ last.op = "search_documents"
    /\ last.emb # None
    /\ last.ret.docs = <<>>
    /\ ~milvus_available
    /\ Len(server[last.collection_name].documents) > 0
    /\ added[last.collection_name].primary > 0
    /\ added[last.collection_name].fallback = 0

\* C22 as stated: between calls every collection in the in-memory map has a
\* file of the same content (the same fragments in the same order), and an
\* add_documents call that returned true on the fallback has its batch in the
\* file, also on an engine that was built with Milvus reachable and failed
\* over later.
C22_WriteThrough ==
    /\ \A n \in Names : collections[n].present => files[n] = collections[n]
    /\ (last.op = "add_documents" /\ last.ret.b /\ ~milvus_available) =>
           /\ files[last.collection_name].present
           /\ IsPart(Entries(last.documents, Filename), files[last.collection_name].documents)

\* the collection is not in memory and has a file
OnlyOnFile(n) == ~collections[n].present /\ files[n].present

\* the call kept what the file held: the file is what it was or has grown, and
\* the collection in memory, if there is one now, begins with the fragments
\* of the file
KeptPersisted(w, n) ==
    LET kept == files[n].documents
    IN  /\ w.files[n].present
        /\ Len(w.files[n].documents) >= Len(kept)
        /\ SubSeq(w.files[n].documents, 1, Len(kept)) = kept
        /\ w.collections[n].present =>
               /\ Len(w.collections[n].documents) >= Len(kept)
               /\ SubSeq(w.collections[n].documents, 1, Len(kept)) = kept

\* C23 as stated: with a readable file and the collection not in memory, every
\* call that the fallback store serves (add_documents, search_documents,
\* get_collection_stats, create_collection, also when it gets there by a
\* failover inside create_collection) loads the file first: the fragments of
\* the file are kept, in the file and in memory, and after an add_documents
\* that returned true the collection counts the fragments of the file plus
\* those of the batch.
C23_LoadsBeforeConcludingAbsence ==
    \A s \in SessionIds :
        LET n == format_collection_name(s)
        IN  OnlyOnFile(n) =>
                /\ \A pf \in Faults(World, CreateFaults) :
                       LET c == create_collection(World, s, pf, "ok")
                       IN  ~c.w.milvus_available => KeptPersisted(c.w, n)
                /\ \A b \in Batches, pf \in Faults(World, AddFaults) :
                       LET o == add_documents(World, s, b, Filename, pf, "ok")
                       IN  ~o.w.milvus_available =>
                               /\ KeptPersisted(o.w, n)
                               /\ o.ret.b => Len(o.w.collections[n].documents)
                                                 = Len(files[n].documents) + Len(b)
                /\ \A emb \in QueryEmbeddings, pf \in Faults(World, SearchFaults) :
                       LET o == search_documents(World, s, emb, emb, MaxTopK, pf, "ok")
                       IN  ~o.w.milvus_available =>
                               KeptPersisted(o.w, n) /\ o.w.collections[n] = files[n]
                /\ \A pf \in Faults(World, StatsFaults) :
                       LET o == get_collection_stats(World, s, pf, "ok")
                       IN  ~o.w.milvus_available =>
                               /\ KeptPersisted(o.w, n)
                               /\ o.ret = RetStats(n, Len(files[n].documents), "file")

\* C27: create_collection is idempotent on both backends: for a collection
\* that Milvus reports, or that is in the in-memory map of an engine on the
\* fallback, it returns the handle of that collection, raises nothing and
\* changes nothing, the fragments included; and whatever a first
\* create_collection call met, a second one right after it returns the same
\* kind of handle and leaves the engine, the files and Milvus as the first
\* call left them.
C27_CreateIsIdempotent ==
    \A s \in SessionIds, io \in WriteModes :
        LET n == format_collection_name(s)
        IN  /\ (milvus_available /\ server[n].present) =>
                   \A pf \in {"none", "index"} :
                       create_collection(World, s, pf, io)
                           = [w |-> World, handle |-> "milvus", raised |-> "none"]
            /\ (~milvus_available /\ collections[n].present) =>
                   create_collection(World, s, "none", io)
                       = [w |-> World, handle |-> "fallback", raised |-> "none"]
            /\ \A pf1 \in Faults(World, CreateFaults), io2 \in WriteModes :
                   LET c1 == create_collection(World, s, pf1, io)
                       c2 == create_collection(c1.w, s, "none", io2)
                   IN  /\ c2.w = c1.w
                       /\ c2.handle = c1.handle
                       /\ c2.raised = "none"

\* a second create_collection in a row with Milvus active, for a collection
\* that holds a fragment
C27_Witness ==
    /\ last.op = "create_collection"
    /\ last.repeat
    /\ last.raised = "none"
    /\ milvus_available
    /\ Len(server[last.collection_name].documents) > 0

\* C29 as stated: an add_documents call that does not return true leaves the
\* fragments of the collection as they were, on Milvus, in the file and in
\* the fallback store as get_collection_stats and search_documents read it:
\* no entry of the batch remains.
C29_FailedAddLeavesNothing ==
    \A s \in SessionIds, b \in Batches, pf \in Faults(World, AddFaults), io \in IoModes :
        LET n == format_collection_name(s)
            o == add_documents(World, s, b, Filename, pf, io)
        IN  o.ret # RetBool(TRUE) =>
                /\ o.w.server[n].documents = server[n].documents
                /\ o.w.files[n].documents = files[n].documents
                /\ FallbackDocs(o.w.collections, o.w.files, n)
                       = FallbackDocs(collections, files, n)

\* the collection is nowhere the engine of w looks for it
Gone(w, n) ==
    /\ ~w.collections[n].present
    /\ ~w.files[n].present
    /\ w.milvus_available => ~w.server[n].present

\* collection_exists, search_documents and get_collection_stats answer false,
\* the empty list and null for the session, whatever Milvus and the file
\* system do, and leave the collection gone
ReadsAbsent(w, s) ==
    LET n == format_collection_name(s)
    IN  /\ \A pf \in Faults(w, ExistsFaults) :
               LET o == collection_exists(w, s, pf)
               IN  o.ret = RetBool(FALSE) /\ Gone(o.w, n)
        /\ \A emb \in QueryEmbeddings, emb2 \in QueryEmbeddings, top_k \in 1..MaxTopK,
              pf \in Faults(w, SearchFaults), io \in IoModes :
               LET o == search_documents(w, s, emb, emb2, top_k, pf, io)
               IN  o.ret = RetList(<<>>) /\ Gone(o.w, n)
        /\ \A pf \in Faults(w, StatsFaults), io \in IoModes :
               LET o == get_collection_stats(w, s, pf, io)
               IN  o.ret = RetNone /\ Gone(o.w, n)

\* every call for the session id s2 other than add_documents and
\* create_collection leaves the collection n gone
OtherCallsKeepGone(w, s2, n) ==
    /\ \A pf \in Faults(w, ExistsFaults) : Gone(collection_exists(w, s2, pf).w, n)
    /\ \A emb \in QueryEmbeddings, emb2 \in QueryEmbeddings, top_k \in 1..MaxTopK,
          pf \in Faults(w, SearchFaults), io \in IoModes :
           Gone(search_documents(w, s2, emb, emb2, top_k, pf, io).w, n)
    /\ \A pf \in Faults(w, StatsFaults), io \in IoModes :
           Gone(get_collection_stats(w, s2, pf, io).w, n)
    /\ \A pf \in Faults(w, DeleteFaults), io \in IoModes :
           Gone(delete_collection(w, s2, pf, io).w, n)

\* add_documents and create_collection for the session id s2 leave the
\* collection n gone
AddsKeepGone(w, s2, n) ==
    /\ \A b \in Batches, pf \in Faults(w, AddFaults), io \in IoModes :
           Gone(add_documents(w, s2, b, Filename, pf, io).w, n)
    /\ \A pf \in Faults(w, CreateFaults), io \in IoModes :
           Gone(create_collection(w, s2, pf, io).w, n)

\* a session whose collection has another name
ElseSession == <<"b">>

\* the world with room for the collection of ElseSession
WithElse(w) ==
    LET e == format_collection_name(ElseSession) :> NoColl
    IN  [w EXCEPT !.collections = @ @@ e, !.files = @ @@ e, !.server = @ @@ e]

\* C30 as stated: after a delete_collection call that returned true the
\* collection is gone for the engine, whichever backend was active and also
\* when Milvus raised during the call; collection_exists, search_documents
\* and get_collection_stats answer false, the empty list and null for the
\* session and keep doing so after every call that is not an add_documents
\* or a create_collection for that very session id.
C30_AbsentUntilAddForSession ==
    /\ (last.op = "delete_collection" /\ last.ret.b) => Gone(World, last.collection_name)
    /\ \A s \in SessionIds :
           LET n == format_collection_name(s)
           IN  Gone(World, n) =>
                   /\ ReadsAbsent(World, s)
                   /\ \A s2 \in SessionIds : OtherCallsKeepGone(World, s2, n)
                   /\ \A s2 \in SessionIds \ {s} : AddsKeepGone(World, s2, n)
                   /\ OtherCallsKeepGone(WithElse(World), ElseSession, n)
                   /\ AddsKeepGone(WithElse(World), ElseSession, n)

\* C30 amended: after a delete_collection call that returned true the
\* collection is gone for the engine, whichever backend was active and also
\* when Milvus raised during the call; collection_exists, search_documents
\* and get_collection_stats answer false, the empty list and null for the
\* session and keep doing so after every call that is not an add_documents
\* or a create_collection for a session id of the same collection name: that
\* session id itself or another one that is sanitized to the same name.
C30_AbsentUntilAddForCollection ==
    /\ (last.op = "delete_collection" /\ last.ret.b) => Gone(World, last.collection_name)
    /\ \A s \in SessionIds :
           LET n == format_collection_name(s)
           IN  Gone(World, n) =>
                   /\ ReadsAbsent(World, s)
                   /\ \A s2 \in SessionIds : OtherCallsKeepGone(World, s2, n)
                   /\ \A s2 \in SessionIds \ SameName(n) : AddsKeepGone(World, s2, n)
                   /\ OtherCallsKeepGone(WithElse(World), ElseSession, n)
                   /\ AddsKeepGone(WithElse(World), ElseSession, n)

\* an existence check that answered false on the fallback after a
\* delete_collection that returned true although Milvus, which raised or was
\* left before, still holds the fragments of the collection
C30_Witness ==
    /\ last.op = "collection_exists"
    /\ last.ret = RetBool(FALSE)
    /\ ~milvus_available
    /\ Len(server[last.collection_name].documents) > 0
    /\ added[last.collection_name].fresh
    /\ added[last.collection_name].primary = 0
    /\ added[last.collection_name].fallback = 0
    /\ added[last.collection_name].partial = 0

-----------------------------------------------------------------------------
(* Claims checked under SpecRank *)

RankName == format_collection_name(RankSession)

RankDocs == collections[RankName].documents

RankResult(emb, top_k) ==
    search_documents(World, RankSession, emb, emb, top_k, "none", "ok").ret.docs

IsZero(v) == v.x = 0 /\ v.y = 0

\* v is a positive multiple of u
SameDirection(u, v) ==
    /\ u.dim = v.dim
    /\ u.x * v.y = u.y * v.x
    /\ u.x * v.x + u.y * v.y > 0

\* the fragment inserted first among those whose embedding has the direction of v
FirstInDirection(documents, v) ==
    CHOOSE i \in 1..Len(documents) :
        /\ SameDirection(documents[i].embedding, v)
        /\ \A j \in 1..(i - 1) : ~SameDirection(documents[j].embedding, v)

BagOfSeq(q) ==
    [x \in {q[i] : i \in DOMAIN q} |-> Cardinality({i \in DOMAIN q : q[i] = x})]

\* C10: on the fallback, for a collection of n fragments, a query embedding
\* and a positive top_k, search_documents returns min(top_k, n) results in
\* non-increasing order of score, each a fragment of the collection with its
\* cosine score, and no fragment left out scores higher than one returned.
C10_TopKByScore ==
    collections[RankName].present =>
        \A emb \in RankQueries, top_k \in 1..(MaxRankDocs + 1) :
            LET n    == Len(RankDocs)
                res  == RankResult(emb, top_k)
                all  == [i \in 1..n |->
                            Scored(RankDocs[i],
                                   cosine_similarity(emb, RankDocs[i].embedding))]
                rest == BagOfSeq(all) (-) BagOfSeq(res)
            IN  /\ Len(res) = IF top_k < n THEN top_k ELSE n
                /\ \A j \in 1..(Len(res) - 1) : ~ScoreLess(res[j].score, res[j + 1].score)
                /\ BagOfSeq(res) \sqsubseteq BagOfSeq(all)
                /\ \A r \in BagToSet(rest) :
                       \A j \in 1..Len(res) : ~ScoreLess(res[j].score, r.score)

\* a search with top_k = 2 in a collection of three fragments that left out
\* the fragment inserted first and returned two of different scores
C10_Witness ==
    /\ last.op = "search_documents"
    /\ Len(RankDocs) = 3
    /\ Len(last.ret.docs) = 2
    /\ ScoreLess(last.ret.docs[2].score, last.ret.docs[1].score)
    /\ \A j \in 1..2 : last.ret.docs[j].text # RankDocs[1].text

\* C11: on the fallback, fragments of equal score come in insertion order:
\* the place of a fragment in the ranking is one more than the number of
\* fragments that score higher plus the number of fragments of its own score
\* inserted before it, and the result holds the fragments whose place is at
\* most top_k; so of two fragments of equal score the earlier one comes first
\* and is the one that is kept when top_k leaves room for only one.
C11_TiesInInsertionOrder ==
    \A emb \in RankQueries, top_k \in 1..MaxRankDocs :
        LET n   == Len(RankDocs)
            res == RankResult(emb, top_k)
            sc(i) == cosine_similarity(emb, RankDocs[i].embedding)
            Place(i) ==
                1 + Cardinality({j \in 1..n : ScoreLess(sc(i), sc(j))})
                  + Cardinality({j \in 1..(i - 1) : ScoreEq(sc(i), sc(j))})
        IN  \A i \in 1..n :
                Place(i) <= top_k =>
                    /\ Place(i) <= Len(res)
                    /\ res[Place(i)] = Scored(RankDocs[i], sc(i))

\* a search with top_k = 1 and the embedding of "east" as the query, in a
\* collection where "east" was inserted before "east again": both score 1 and
\* "east" is the one returned
C11_Witness ==
    /\ last.op = "search_documents"
    /\ last.emb = R1.embedding
    /\ Len(RankDocs) = 2
    /\ RankDocs[1].text = R1.text
    /\ RankDocs[2].text = R1b.text
    /\ Len(last.ret.docs) = 1
    /\ last.ret.docs[1].text = R1.text

\* C25: on the fallback a vector of norm zero never makes a search fail: for
\* every query embedding the call returns a list and raises nothing; a
\* fragment is scored 0 when its embedding or the query embedding is the zero
\* vector, and it is ranked with that score: it is in the result when top_k
\* leaves room for every fragment, behind the fragments of positive score and
\* before those of negative score, and with the zero vector as the query the
\* result is the whole collection in insertion order, every score 0.
C25_ZeroNormScoresZero ==
    collections[RankName].present =>
        \A emb \in RankQueries :
            LET n   == Len(RankDocs)
                o   == search_documents(World, RankSession, emb, emb, n, "none", "ok")
                res == o.ret.docs
            IN  /\ o.ret.kind = "list"
                /\ o.raised = "none"
                /\ Len(res) = n
                /\ \A i \in 1..n :
                       (IsZero(emb) \/ IsZero(RankDocs[i].embedding)) =>
                           \E j \in 1..n :
                               /\ res[j] = Scored(RankDocs[i], Score0)
                               /\ \A k \in 1..n :
                                      /\ res[k].score.num > 0 => k < j
                                      /\ res[k].score.num < 0 => k > j
                /\ IsZero(emb) => res = [i \in 1..n |-> Scored(RankDocs[i], Score0)]

\* a search with the embedding of "east" as the query in a collection where
\* "west" was inserted before "nowhere", whose embedding is the zero vector:
\* "nowhere" is returned with score 0, before "west"
C25_Witness ==
    /\ last.op = "search_documents"
    /\ last.emb = R1.embedding
    /\ Len(RankDocs) = 2
    /\ RankDocs[1].text = RN.text
    /\ RankDocs[2].text = RZ.text
    /\ Len(last.ret.docs) = 2
    /\ last.ret.docs[1] = Scored(RankDocs[2], Score0)
    /\ last.ret.docs[2].text = RN.text

-----------------------------------------------------------------------------
(* Claims checked under SpecThreads *)

\* C15 as stated: with the two threads on sessions of different collection
\* names, every call returns what it would return had the calls for the other
\* session not run, and between its calls the collection of a session is, in
\* memory, on file and on Milvus, what the calls for that session alone
\* produce.
C15_SessionsDoNotInterfere ==
    NameOf(1) # NameOf(2) =>
        \A t \in ThreadIds :
            Returned(t) =>
                /\ threads[t].ret = threads[t].exp
                /\ collections[NameOf(t)] = threads[t].shadow.collections[NameOf(t)]
                /\ files[NameOf(t)] = threads[t].shadow.files[NameOf(t)]
                /\ server[NameOf(t)] = threads[t].shadow.server[NameOf(t)]

Holds(documents, doc) ==
    \E j \in 1..Len(documents) : documents[j] = Entry(doc, Filename)

\* C16 as stated: on an engine that is on the fallback, when each thread has
\* made one add_documents call for the same session and both calls returned
\* true, the collection holds, in memory and in its file, every fragment of
\* both batches.
C16_NoInsertLost ==
    (/\ NameOf(1) = NameOf(2)
     /\ ~milvus_available
     /\ \A t \in ThreadIds :
            /\ Returned(t)
            /\ threads[t].calls = 1
            /\ threads[t].op = "add_documents"
            /\ threads[t].ret = RetBool(TRUE))
    => \A t \in ThreadIds : \A i \in 1..Len(threads[t].documents) :
           /\ Holds(collections[NameOf(t)].documents, threads[t].documents[i])
           /\ Holds(files[NameOf(t)].documents, threads[t].documents[i])

\* how many results carry the text of the i-th fragment of the batch of thread u
Seen(ret, u, i) ==
    Cardinality({j \in 1..Len(ret.docs) : ret.docs[j].text = ThreadBatch(u)[i].text})

\* C17 as stated: a search_documents or get_collection_stats call that read
\* the collection on the fallback while the other thread was adding its batch
\* of two fragments to it observed both fragments of that batch or neither:
\* the search result holds as many copies of the one as of the other, the
\* count is even.
C17_NoTornRead ==
    \A t \in ThreadIds :
        (Returned(t) /\ threads[t].during) =>
            /\ threads[t].op = "search_documents" =>
                   Seen(threads[t].ret, Other(t), 1) = Seen(threads[t].ret, Other(t), 2)
            /\ threads[t].op = "get_collection_stats" =>
                   threads[t].ret.num_entities % 2 = 0

-----------------------------------------------------------------------------
(* Claims checked under SpecServices *)

\* C18 as stated: at every moment the engines of the process agree on the
\* active backend: a failover recorded by the engine of one service is in
\* effect in the engine of the other.
C18_EnginesAgree == chat.milvus_available = milvus_available

EmptyName == format_collection_name(<<>>)

\* C20 as stated: no call with the empty session id creates a collection: the
\* collection named for the empty id exists nowhere, not in the memory of an
\* engine, not as a file, not on Milvus.
C20_NoCollectionForEmptyId ==
    /\ ~collections[EmptyName].present
    /\ ~chat.collections[EmptyName].present
    /\ ~files[EmptyName].present
    /\ ~server[EmptyName].present

\* C28 as stated: with both engines on the fallback, once add_documents of
\* one engine has put its batch into the collection and its file, the other
\* engine answers for that session as the adding engine does: search_documents
\* ranks the same fragments and get_collection_stats counts them, also when
\* the other engine loaded the collection before the add; and an
\* add_documents through the other engine keeps the fragments of the file.
C28_AddsVisibleToOtherEngines ==
    \A s \in ServiceSessions :
        LET n == format_collection_name(s)
        IN  (/\ storage_dir
             /\ ~milvus_available
             /\ ~chat.milvus_available
             /\ collections[n].present
             /\ files[n] = collections[n]) =>
                /\ \A emb \in QueryEmbeddings :
                       search_documents(WorldOf(chat), s, emb, emb, MaxDocs, "none", "ok").ret
                           = search_documents(World, s, emb, emb, MaxDocs, "none", "ok").ret
                /\ get_collection_stats(WorldOf(chat), s, "none", "ok").ret
                       = get_collection_stats(World, s, "none", "ok").ret
                /\ \A b \in {<<FA>>, <<FB>>} :
                       LET o == add_documents(WorldOf(chat), s, b, Filename, "none", "ok")
                       IN  o.ret.b =>
                               o.w.files[n].documents
                                   = files[n].documents \o Entries(b, Filename)

-----------------------------------------------------------------------------
(* Claims checked under SpecNames *)

InClass(c) == c \in SafeChars

\* C19 as stated: the collection name is 'sess_' followed by the session id
\* without its characters outside [A-Za-z0-9_], and two different session ids
\* have different collection names.
C19_NameIsInjective ==
    last.op = "names" =>
        /\ last.name_a = <<"sess_">> \o SelectSeq(last.a, InClass)
        /\ last.a # last.b => last.name_a # last.name_b

\* C19 amended: the collection name is 'sess_' followed by the session id
\* without its characters outside [A-Za-z0-9_]; equal session ids have equal
\* names; two session ids have the same collection name exactly when they are
\* equal once those characters are removed, so the derivation is injective
\* on the session ids that consist of characters of the class only, and two
\* session ids that differ only in other characters share one collection.
C19_NameIsInjectiveOnClass ==
    last.op = "names" =>
        /\ last.name_a = <<"sess_">> \o SelectSeq(last.a, InClass)
        /\ last.name_b = <<"sess_">> \o SelectSeq(last.b, InClass)
        /\ last.a = last.b => last.name_a = last.name_b
        /\ (last.name_a = last.name_b)
               = (SelectSeq(last.a, InClass) = SelectSeq(last.b, InClass))
        /\ (/\ \A i \in 1..Len(last.a) : InClass(last.a[i])
            /\ \A i \in 1..Len(last.b) : InClass(last.b[i])
            /\ last.a # last.b) => last.name_a # last.name_b

\* two different session ids formatted to the same collection name
C19_Witness ==
    /\ last.op = "names"
    /\ last.a # last.b
    /\ last.name_a = last.name_b
    /\ Len(last.name_a) > 1

-----------------------------------------------------------------------------
(* Claims checked under SpecWrites *)

\* C24 as stated: at every point of a write of the collection file, also one
\* at which the process dies or another engine loads the file, the file is a
\* complete document: what it held before the write began or what the write
\* puts there, never an empty or partial one.
C24_FileOverwrittenAtomically ==
    /\ ~IsPartial(files[WriteName])
    /\ threads[1].pc = "dump" =>
           files[WriteName] \in {threads[1].pre, Head(threads[1].saves)}

-----------------------------------------------------------------------------
(* Claims checked under SpecPrimary *)

\* C26: an add_documents call that returned true with Milvus active has made
\* its calls to Milvus in this order: the existence check (and the creation
\* of the collection when it was absent), the insert of the whole batch, the
\* flush, the load; when it returns the collection exists on Milvus, holds the
\* batch, has every fragment flushed and is loaded; and a search_documents
\* call that follows it finds the collection loaded already.
C26_LoadedBeforeAddReturns ==
    LET T == threads[1]
        c == server[PrimaryName]
    IN  /\ (T.pc = "idle" /\ T.op = "add_documents" /\ T.ret.b /\ milvus_available) =>
               /\ T.log \in {<<"has_collection", "insert", "flush", "load">>,
                             <<"has_collection", "create_index", "insert", "flush", "load">>}
               /\ c.present
               /\ c.loaded
               /\ c.flushed = Len(c.documents)
               /\ Len(c.documents) >= Len(T.documents)
               /\ SubSeq(c.documents, Len(c.documents) - Len(T.documents) + 1,
                         Len(c.documents)) = Entries(T.documents, Filename)
        /\ (T.op = "search_documents" /\ T.after_add) =>
               /\ T.was_loaded
               /\ c.flushed = Len(c.documents)

\* a search that followed an add_documents on Milvus that returned true,
\* found the collection loaded and returned two fragments
C26_Witness ==
    /\ threads[1].op = "search_documents"
    /\ threads[1].after_add
    /\ threads[1].was_loaded
    /\ milvus_available
    /\ Len(threads[1].ret.docs) = 2

====
